---------------------------- MODULE Spec2Model ----------------------------
(***************************************************************************)
(* Maraffa: the single-hand environment MaraffaEnv (src/src/env_maraffa.py)*)
(* driven by the match loop of src/src/match.py.                           *)
(*                                                                         *)
(* Bit masks of the source (hands, played_mask, SUIT_MASKS, ...) are sets  *)
(* of card ids; Python lists and tuples are 1-indexed sequences, so the    *)
(* source's position i is position i+1 here.                               *)
(***************************************************************************)
EXTENDS Integers, Sequences, FiniteSets, TLC

(***************************************************************************)
(* Bounds of the exploration.                                              *)
(***************************************************************************)
\* resets explored on one environment object
MaxResets == 1
\* per hand, how many times a policy may answer something else than legal[0]
MaxDevs == 1
\* a deviating policy answers one of the first MaxChoice legal actions
MaxChoice == 2
\* the words a RandomAgent has drawn from its generator before a call
MaxAgentWords == 3

(***************************************************************************)
(* Card model, env_maraffa.py:9-39.                                        *)
(***************************************************************************)
NUM_PLAYERS == 4
NUM_SUITS == 4
NUM_RANKS == 10
NUM_CARDS == 40
\* variant: one trick short
NUM_TRICKS_short == NUM_CARDS \div NUM_PLAYERS - 1

NUM_TRICKS == 10
MARAFFA_BONUS_THIRDS == 9

Players == 0 .. (NUM_PLAYERS - 1)
Suits == 0 .. (NUM_SUITS - 1)
Cards == 0 .. (NUM_CARDS - 1)

RANK_STRENGTH == <<9, 8, 7, 6, 5, 4, 3, 2, 1, 0>>
RANK_POINTS_THIRDS == <<1, 1, 3, 1, 1, 1, 0, 0, 0, 0>>

\* Python list indexing: a negative index counts from the end.
PyIndex(i, n) == IF i < 0 THEN i + n ELSE i

CARD_SUIT(c) == PyIndex(c, NUM_CARDS) \div NUM_RANKS
CARD_RANK(c) == PyIndex(c, NUM_CARDS) % NUM_RANKS
CARD_STRENGTH(c) == RANK_STRENGTH[CARD_RANK(c) + 1]
CARD_POINTS_THIRDS(c) == RANK_POINTS_THIRDS[CARD_RANK(c) + 1]

SUIT_MASKS(s) ==
    LET b == PyIndex(s, NUM_SUITS)
    IN  {b * NUM_RANKS + r : r \in 0 .. (NUM_RANKS - 1)}

\* ranks 3, 2, A are rank indices 0, 1, 2
MARAFFA_MASKS(s) ==
    LET base == PyIndex(s, NUM_SUITS) * NUM_RANKS
    IN  {base, base + 1, base + 2}

\* variant: partners taken to be neighbours (0 with 1, 2 with 3)
team_of_half(player) == player \div 2

team_of(player) == player % 2

\* The cards of a mask, lowest bit first.
RECURSIVE iter_cards(_)
iter_cards(mask) ==
    IF mask = {} THEN <<>>
    ELSE LET c == CHOOSE x \in mask : \A y \in mask : x <= y
         IN  <<c>> \o iter_cards(mask \ {c})

\* variant: |= where the code has ^=, the card stays in the mask
XorCard_or(mask, card) == mask \cup {card}

\* mask ^ (1 << card)
XorCard(mask, card) ==
    IF card \in mask THEN mask \ {card} ELSE mask \cup {card}

\* mask | (1 << card)
OrCard(mask, card) == mask \cup {card}

(***************************************************************************)
(* random.Random(seed): shuffle(deck) moves deck[ShufflePerm(seed)[i]] to  *)
(* position i, and the randrange(4) that follows returns SeedDeclarer(seed)*)
(* (the values CPython's generator produces for these seeds).              *)
(***************************************************************************)
Seeds == {0, 12}

ShufflePerm(seed) ==
    CASE seed = 0 ->
           <<0, 27, 12, 21, 29, 15, 38, 34, 1, 20, 7, 5, 10, 13, 14, 37, 22,
             39, 23, 17, 8, 35, 3, 33, 9, 4, 36, 6, 28, 18, 11, 30, 19, 25,
             31, 32, 16, 2, 26, 24>>
      [] seed = 1 ->
           <<23, 2, 11, 1, 37, 32, 5, 9, 17, 29, 34, 20, 38, 21, 27, 22, 10,
             33, 18, 35, 39, 14, 26, 19, 13, 12, 0, 15, 3, 6, 25, 24, 30, 28,
             31, 7, 16, 4, 36, 8>>
      [] seed = 12 ->
           <<32, 2, 6, 29, 12, 15, 34, 16, 31, 1, 13, 35, 26, 3, 18, 10, 5,
             11, 27, 4, 28, 21, 37, 38, 7, 19, 36, 14, 25, 20, 8, 39, 23, 0,
             24, 9, 22, 33, 17, 30>>

SeedDeclarer(seed) ==
    CASE seed = 0 -> 3
      [] seed = 1 -> 1
      [] seed = 12 -> 0

Shuffle(d, seed) == [i \in 1 .. NUM_CARDS |-> d[ShufflePerm(seed)[i] + 1]]

\* for i, c in enumerate(deck): hands[i & 3] |= 1 << c
Deal(d) == [p \in Players |-> {d[i + 1] : i \in {j \in 0 .. (NUM_CARDS - 1) : j % 4 = p}}]

(***************************************************************************)
(* State: the fields of MaraffaEnv, then the observer's bookkeeping.       *)
(***************************************************************************)
VARIABLES
    deck,                \* self._deck
    hands,               \* self.hands, player -> set of cards
    current_player,
    declarer,
    choose_trump_phase,
    trump_suit,
    trick_cards,
    trick_players,
    trick_len,
    lead_suit,
    trick_index,
    scores_thirds,       \* <<team 0, team 1>>
    bonus_team,
    played_mask,
    trick_history,       \* sequence of <<lead_suit, players, cards>>
    done,
    err,                 \* exception raised by the last call, or "none"
    last,                \* the last call: operation, argument, was it legal
    resets,              \* number of reset() calls so far
    devs,                \* deviations from legal[0] in the current hand
    det,                 \* the env the determinizer returned to the pending
                         \* play_card call, NoDet outside such a call
    det_returned,        \* the return statement that produced det
    hero                 \* what the last HeroAgent.play_card call did, NoHero
                         \* once the game has moved on

env == <<deck, hands, current_player, declarer, choose_trump_phase, trump_suit,
         trick_cards, trick_players, trick_len, lead_suit, trick_index,
         scores_thirds, bonus_team, played_mask, trick_history, done>>

vars == <<deck, hands, current_player, declarer, choose_trump_phase, trump_suit,
          trick_cards, trick_players, trick_len, lead_suit, trick_index,
          scores_thirds, bonus_team, played_mask, trick_history, done,
          err, last, resets, devs, det, det_returned, hero>>

NoDet == [hands |-> <<>>]

NoHero == [branch |-> "none"]

\* no play_card call of the hero is pending
NoHeroCall == det' = NoDet /\ det_returned' = "none" /\ hero' = NoHero

EMPTY_TRICK == <<-1, -1, -1, -1>>

\* MaraffaEnv.__init__
Init ==
    /\ deck = [i \in 1 .. NUM_CARDS |-> i - 1]
    /\ hands = [p \in Players |-> {}]
    /\ current_player = 0
    /\ declarer = 0
    /\ choose_trump_phase = TRUE
    /\ trump_suit = -1
    /\ trick_cards = EMPTY_TRICK
    /\ trick_players = EMPTY_TRICK
    /\ trick_len = 0
    /\ lead_suit = -1
    /\ trick_index = 0
    /\ scores_thirds = <<0, 0>>
    /\ bonus_team = -1
    /\ played_mask = {}
    /\ trick_history = <<>>
    /\ done = FALSE
    /\ err = "none"
    /\ last = [op |-> "init", arg |-> -1, legal |-> TRUE]
    /\ resets = 0
    /\ devs = 0
    /\ det = NoDet
    /\ det_returned = "none"
    /\ hero = NoHero

(***************************************************************************)
(* MaraffaEnv.reset(seed)                                                  *)
(***************************************************************************)
reset(seed) ==
    LET d == Shuffle(deck, seed)
    IN  /\ deck' = d
        /\ hands' = Deal(d)
        /\ declarer' = SeedDeclarer(seed)
        /\ current_player' = SeedDeclarer(seed)
        /\ choose_trump_phase' = TRUE
        /\ trump_suit' = -1
        /\ trick_cards' = EMPTY_TRICK
        /\ trick_players' = EMPTY_TRICK
        /\ trick_len' = 0
        /\ lead_suit' = -1
        /\ trick_index' = 0
        /\ scores_thirds' = <<0, 0>>
        /\ bonus_team' = -1
        /\ played_mask' = {}
        /\ trick_history' = <<>>
        /\ done' = FALSE
        /\ err' = "none"

\* variant: in TrumpSelection every player is offered the four suits
legal_actions_anyone(player) ==
    IF choose_trump_phase
    THEN <<0, 1, 2, 3>>
    ELSE LET hand == hands[player]
             led == hand \cap SUIT_MASKS(lead_suit)
         IN  IF trick_len = 0 THEN iter_cards(hand)
             ELSE IF led # {} THEN iter_cards(led)
             ELSE iter_cards(hand)

\* variant: no follow-suit rule
legal_actions_anycard(player) ==
    IF choose_trump_phase
    THEN IF player # current_player THEN <<>> ELSE <<0, 1, 2, 3>>
    ELSE iter_cards(hands[player])

\* variant: a player who cannot follow suit is offered nothing
legal_actions_followonly(player) ==
    IF choose_trump_phase
    THEN IF player # current_player THEN <<>> ELSE <<0, 1, 2, 3>>
    ELSE LET hand == hands[player]
             led == hand \cap SUIT_MASKS(lead_suit)
         IN  IF trick_len = 0 THEN iter_cards(hand)
             ELSE iter_cards(led)

(***************************************************************************)
(* MaraffaEnv.legal_actions(player)                                        *)
(***************************************************************************)
legal_actions(player) ==
    IF choose_trump_phase
    THEN IF player # current_player THEN <<>> ELSE <<0, 1, 2, 3>>
    ELSE LET hand == hands[player]
             led == hand \cap SUIT_MASKS(lead_suit)
         IN  IF trick_len = 0 THEN iter_cards(hand)
             ELSE IF led # {} THEN iter_cards(led)
             ELSE iter_cards(hand)

(***************************************************************************)
(* MaraffaEnv.obs(player); player = -1 stands for None.  ObsView is the    *)
(* body of obs with self.hands as a parameter.                             *)
(***************************************************************************)
PublicFields ==
    [current_player |-> current_player,
     declarer |-> declarer,
     choose_trump_phase |-> choose_trump_phase,
     trump_suit |-> trump_suit,
     trick_cards |-> trick_cards,
     trick_players |-> trick_players,
     trick_len |-> trick_len,
     lead_suit |-> lead_suit,
     trick_index |-> trick_index,
     scores_thirds |-> scores_thirds,
     bonus_team |-> bonus_team,
     played_mask |-> played_mask,
     trick_history |-> trick_history,
     done |-> done]

\* variant: the debug entry "hands" is returned to every caller
ObsView_leak(hs, player) ==
    IF player = -1
    THEN [current_player |-> current_player,
          declarer |-> declarer,
          choose_trump_phase |-> choose_trump_phase,
          trump_suit |-> trump_suit,
          trick_cards |-> trick_cards,
          trick_players |-> trick_players,
          trick_len |-> trick_len,
          lead_suit |-> lead_suit,
          trick_index |-> trick_index,
          scores_thirds |-> scores_thirds,
          bonus_team |-> bonus_team,
          played_mask |-> played_mask,
          trick_history |-> trick_history,
          done |-> done,
          hands |-> hs]
    ELSE [current_player |-> current_player,
          declarer |-> declarer,
          choose_trump_phase |-> choose_trump_phase,
          trump_suit |-> trump_suit,
          trick_cards |-> trick_cards,
          trick_players |-> trick_players,
          trick_len |-> trick_len,
          lead_suit |-> lead_suit,
          trick_index |-> trick_index,
          scores_thirds |-> scores_thirds,
          bonus_team |-> bonus_team,
          played_mask |-> played_mask,
          trick_history |-> trick_history,
          done |-> done,
          hands |-> hs,
          player |-> player,
          hand_mask |-> hs[player]]

ObsView(hs, player) ==
    IF player = -1
    THEN [current_player |-> current_player,
          declarer |-> declarer,
          choose_trump_phase |-> choose_trump_phase,
          trump_suit |-> trump_suit,
          trick_cards |-> trick_cards,
          trick_players |-> trick_players,
          trick_len |-> trick_len,
          lead_suit |-> lead_suit,
          trick_index |-> trick_index,
          scores_thirds |-> scores_thirds,
          bonus_team |-> bonus_team,
          played_mask |-> played_mask,
          trick_history |-> trick_history,
          done |-> done,
          hands |-> hs]
    ELSE [current_player |-> current_player,
          declarer |-> declarer,
          choose_trump_phase |-> choose_trump_phase,
          trump_suit |-> trump_suit,
          trick_cards |-> trick_cards,
          trick_players |-> trick_players,
          trick_len |-> trick_len,
          lead_suit |-> lead_suit,
          trick_index |-> trick_index,
          scores_thirds |-> scores_thirds,
          bonus_team |-> bonus_team,
          played_mask |-> played_mask,
          trick_history |-> trick_history,
          done |-> done,
          player |-> player,
          hand_mask |-> hs[player]]

obs(player) == ObsView(hands, player)

Range(s) == {s[i] : i \in 1 .. Len(s)}

(***************************************************************************)
(* MaraffaEnv._resolve_trick                                               *)
(***************************************************************************)
\* first loop: is any card of the trick a trump
HasTrump(cards, trump) == \E i \in 1 .. Len(cards) : CARD_SUIT(cards[i]) = trump

\* variant: without a trump in the trick every card competes
Skipped_nolead(c, has_trump, trump, lead) == has_trump /\ CARD_SUIT(c) # trump

\* is the card skipped by the second loop
Skipped(c, has_trump, trump, lead) ==
    IF has_trump THEN CARD_SUIT(c) # trump ELSE CARD_SUIT(c) # lead

\* second loop, from position i on; best_i is a position of the sequence
RECURSIVE BestLoop(_, _, _, _, _, _, _)
BestLoop(cards, has_trump, trump, lead, i, best_i, best_s) ==
    IF i > Len(cards) THEN best_i
    ELSE IF Skipped(cards[i], has_trump, trump, lead)
         THEN BestLoop(cards, has_trump, trump, lead, i + 1, best_i, best_s)
    ELSE IF CARD_STRENGTH(cards[i]) > best_s
         THEN BestLoop(cards, has_trump, trump, lead, i + 1, i, CARD_STRENGTH(cards[i]))
    ELSE BestLoop(cards, has_trump, trump, lead, i + 1, best_i, best_s)

BestIndex(cards, trump, lead) ==
    BestLoop(cards, HasTrump(cards, trump), trump, lead, 1, 1, -1)

RECURSIVE SumThirds(_, _)
SumThirds(cards, i) ==
    IF i > Len(cards) THEN 0
    ELSE CARD_POINTS_THIRDS(cards[i]) + SumThirds(cards, i + 1)

\* variant: the sum starts at the second card
TrickThirds_skipfirst(cards) == SumThirds(cards, 2)

TrickThirds(cards) == SumThirds(cards, 1)

\* <<winner, thirds>> of a full trick
resolve_trick(cards, players, trump, lead) ==
    <<players[BestIndex(cards, trump, lead)], TrickThirds(cards)>>


(***************************************************************************)
(* MaraffaEnv._declare_trump(suit)                                         *)
(***************************************************************************)
\* variant: the teams taken to be 0 with 1 and 2 with 3
BonusTeam_adjacent(hs, suit) ==
    LET maraffa_mask == MARAFFA_MASKS(suit)
        t0 == hs[0] \cup hs[1]
        t1 == hs[2] \cup hs[3]
    IN  IF (t0 \cap maraffa_mask) = maraffa_mask THEN 0
        ELSE IF (t1 \cap maraffa_mask) = maraffa_mask THEN 1
        ELSE -1

\* the team holding the three cards of MARAFFA_MASKS[suit], or -1
BonusTeam(hs, suit) ==
    LET maraffa_mask == MARAFFA_MASKS(suit)
        t0 == hs[0] \cup hs[2]
        t1 == hs[1] \cup hs[3]
    IN  IF (t0 \cap maraffa_mask) = maraffa_mask THEN 0
        ELSE IF (t1 \cap maraffa_mask) = maraffa_mask THEN 1
        ELSE -1

\* variant: the declared suit is not stored
declare_trump_unset(suit) ==
    /\ trump_suit' = trump_suit
    /\ choose_trump_phase' = FALSE
    /\ IF suit \in (0 - NUM_SUITS) .. (NUM_SUITS - 1)
       THEN /\ bonus_team' = BonusTeam(hands, suit)
            /\ err' = "none"
       ELSE /\ bonus_team' = bonus_team
            /\ err' = "IndexError"

\* MARAFFA_MASKS[suit] raises IndexError outside -4..3, after the two
\* assignments that precede it
declare_trump(suit) ==
    /\ trump_suit' = suit
    /\ choose_trump_phase' = FALSE
    /\ IF suit \in (0 - NUM_SUITS) .. (NUM_SUITS - 1)
       THEN /\ bonus_team' = BonusTeam(hands, suit)
            /\ err' = "none"
       ELSE /\ bonus_team' = bonus_team
            /\ err' = "IndexError"

(***************************************************************************)
(* MaraffaEnv._play_card(player, card), for card in 0..39                  *)
(***************************************************************************)
\* variant: the turn passes to the right
NextSeat_back(player) == (player + 3) % 4

NextSeat(player) == (player + 1) % 4

AddThirds(scores, team, thirds) == [scores EXCEPT ![team + 1] = @ + thirds]

\* variant: the bonus is added after every trick
EndBonus_everytrick(scores, idx, bt) ==
    IF bt \in {0, 1}
    THEN AddThirds(scores, bt, MARAFFA_BONUS_THIRDS)
    ELSE scores

\* lines 217-220: the scores after the trick that brought trick_index to idx
EndBonus(scores, idx, bt) ==
    IF idx = NUM_TRICKS /\ bt \in {0, 1}
    THEN AddThirds(scores, bt, MARAFFA_BONUS_THIRDS)
    ELSE scores

\* variant: lead_suit is not cleared when the trick is resolved
play_card_keeplead(player, card) ==
    LET pos == trick_len
        tc == [trick_cards EXCEPT ![pos + 1] = card]
        tp == [trick_players EXCEPT ![pos + 1] = player]
        tl == trick_len + 1
        ls == IF pos = 0 THEN CARD_SUIT(card) ELSE lead_suit
        res == resolve_trick(tc, tp, trump_suit, ls)
        winner == res[1]
        thirds == res[2]
    IN  /\ hands' = [hands EXCEPT ![player] = XorCard(@, card)]
        /\ played_mask' = OrCard(played_mask, card)
        /\ err' = "none"
        /\ IF tl < NUM_PLAYERS
           THEN /\ trick_cards' = tc
                /\ trick_players' = tp
                /\ trick_len' = tl
                /\ lead_suit' = ls
                /\ current_player' = NextSeat(player)
                /\ UNCHANGED <<trick_history, scores_thirds, trick_index, done>>
           ELSE /\ trick_history' = Append(trick_history, <<ls, tp, tc>>)
                /\ trick_index' = trick_index + 1
                /\ scores_thirds' =
                       EndBonus(AddThirds(scores_thirds, team_of(winner), thirds),
                                trick_index + 1, bonus_team)
                /\ trick_cards' = EMPTY_TRICK
                /\ trick_players' = EMPTY_TRICK
                /\ trick_len' = 0
                /\ lead_suit' = ls
                /\ current_player' = winner
                /\ done' = IF trick_index + 1 = NUM_TRICKS THEN TRUE ELSE done

\* variant: the card played stays in the hand
play_card_keephand(player, card) ==
    LET pos == trick_len
        tc == [trick_cards EXCEPT ![pos + 1] = card]
        tp == [trick_players EXCEPT ![pos + 1] = player]
        tl == trick_len + 1
        ls == IF pos = 0 THEN CARD_SUIT(card) ELSE lead_suit
        res == resolve_trick(tc, tp, trump_suit, ls)
        winner == res[1]
        thirds == res[2]
    IN  /\ hands' = hands
        /\ played_mask' = OrCard(played_mask, card)
        /\ err' = "none"
        /\ IF tl < NUM_PLAYERS
           THEN /\ trick_cards' = tc
                /\ trick_players' = tp
                /\ trick_len' = tl
                /\ lead_suit' = ls
                /\ current_player' = NextSeat(player)
                /\ UNCHANGED <<trick_history, scores_thirds, trick_index, done>>
           ELSE /\ trick_history' = Append(trick_history, <<ls, tp, tc>>)
                /\ trick_index' = trick_index + 1
                /\ scores_thirds' =
                       EndBonus(AddThirds(scores_thirds, team_of(winner), thirds),
                                trick_index + 1, bonus_team)
                /\ trick_cards' = EMPTY_TRICK
                /\ trick_players' = EMPTY_TRICK
                /\ trick_len' = 0
                /\ lead_suit' = -1
                /\ current_player' = winner
                /\ done' = IF trick_index + 1 = NUM_TRICKS THEN TRUE ELSE done

play_card(player, card) ==
    LET pos == trick_len
        tc == [trick_cards EXCEPT ![pos + 1] = card]
        tp == [trick_players EXCEPT ![pos + 1] = player]
        tl == trick_len + 1
        ls == IF pos = 0 THEN CARD_SUIT(card) ELSE lead_suit
        res == resolve_trick(tc, tp, trump_suit, ls)
        winner == res[1]
        thirds == res[2]
    IN  /\ hands' = [hands EXCEPT ![player] = XorCard(@, card)]
        /\ played_mask' = OrCard(played_mask, card)
        /\ err' = "none"
        /\ IF tl < NUM_PLAYERS
           THEN /\ trick_cards' = tc
                /\ trick_players' = tp
                /\ trick_len' = tl
                /\ lead_suit' = ls
                /\ current_player' = NextSeat(player)
                /\ UNCHANGED <<trick_history, scores_thirds, trick_index, done>>
           ELSE /\ trick_history' = Append(trick_history, <<ls, tp, tc>>)
                /\ trick_index' = trick_index + 1
                /\ scores_thirds' =
                       EndBonus(AddThirds(scores_thirds, team_of(winner), thirds),
                                trick_index + 1, bonus_team)
                /\ trick_cards' = EMPTY_TRICK
                /\ trick_players' = EMPTY_TRICK
                /\ trick_len' = 0
                /\ lead_suit' = -1
                /\ current_player' = winner
                /\ done' = IF trick_index + 1 = NUM_TRICKS THEN TRUE ELSE done

\* variant: no check of done
step_nodone(action) ==
    IF choose_trump_phase
    THEN /\ declare_trump(action)
         /\ current_player' =
                IF action \in (0 - NUM_SUITS) .. (NUM_SUITS - 1)
                THEN declarer ELSE current_player
         /\ UNCHANGED <<deck, hands, declarer, trick_cards, trick_players,
                        trick_len, lead_suit, trick_index, scores_thirds,
                        played_mask, trick_history, done>>
    ELSE /\ play_card(current_player, action)
         /\ UNCHANGED <<deck, declarer, choose_trump_phase, trump_suit, bonus_team>>

(***************************************************************************)
(* MaraffaEnv.step(action)                                                 *)
(***************************************************************************)
step(action) ==
    IF done
    THEN UNCHANGED <<env, err>>
    ELSE IF choose_trump_phase
    THEN /\ declare_trump(action)
         /\ current_player' =
                IF action \in (0 - NUM_SUITS) .. (NUM_SUITS - 1)
                THEN declarer ELSE current_player
         /\ UNCHANGED <<deck, hands, declarer, trick_cards, trick_players,
                        trick_len, lead_suit, trick_index, scores_thirds,
                        played_mask, trick_history, done>>
    ELSE /\ play_card(current_player, action)
         /\ UNCHANGED <<deck, declarer, choose_trump_phase, trump_suit, bonus_team>>

(***************************************************************************)
(* hero.py _public_void_suits(obs): void[p][s], as a function on           *)
(* <<player, suit>>.  The loops only ever set entries to True, so the      *)
(* entry is True iff some iteration sets it.                               *)
(***************************************************************************)
\* the entries the loop over obs["trick_history"] sets
VoidFromHistory(o, p, s) ==
    \E k \in 1 .. Len(o.trick_history) :
       LET ls == o.trick_history[k][1]
           players == o.trick_history[k][2]
           cards == o.trick_history[k][3]
       IN  /\ ls = s
           /\ \E i \in 1 .. 4 :
                 /\ players[i] = p
                 /\ cards[i] >= 0
                 /\ CARD_SUIT(cards[i]) # ls

\* the entries the loop over the trick in progress sets
VoidFromTrick(o, p, s) ==
    /\ o.trick_len > 0
    /\ o.lead_suit = s
    /\ \E i \in 1 .. o.trick_len :
          /\ o.trick_players[i] = p
          /\ o.trick_cards[i] >= 0
          /\ CARD_SUIT(o.trick_cards[i]) # o.lead_suit

\* variant: the player is marked void in the suit of the card played
VoidMark_cardsuit(o, p, s) ==
    \/ \E k \in 1 .. Len(o.trick_history) :
          LET players == o.trick_history[k][2]
              cards == o.trick_history[k][3]
          IN  \E i \in 1 .. 4 :
                 /\ players[i] = p
                 /\ cards[i] >= 0
                 /\ CARD_SUIT(cards[i]) # o.trick_history[k][1]
                 /\ CARD_SUIT(cards[i]) = s
    \/ /\ o.trick_len > 0
       /\ \E i \in 1 .. o.trick_len :
             /\ o.trick_players[i] = p
             /\ o.trick_cards[i] >= 0
             /\ CARD_SUIT(o.trick_cards[i]) # o.lead_suit
             /\ CARD_SUIT(o.trick_cards[i]) = s

\* variant: only the trick in progress is scanned
VoidMark_curonly(o, p, s) == VoidFromTrick(o, p, s)

\* the value of void[p][s] when _public_void_suits returns
VoidMark(o, p, s) == VoidFromHistory(o, p, s) \/ VoidFromTrick(o, p, s)

public_void_suits(o) ==
    [ps \in Players \X Suits |-> VoidMark(o, ps[1], ps[2])]

(***************************************************************************)
(* random.Random: CPython's Mersenne Twister (MT19937).  The generator is  *)
(* the record [mt, mti] of _randommodule.c: the 624 words of state and the *)
(* index of the next word.  A word of the state is the tuple of its four   *)
(* bytes, the most significant first, each kept as its value plus one, the *)
(* index of its row in the tables below; the arithmetic of the seeding is  *)
(* done on the pair <<hi, lo>> of a word's 16-bit halves.                  *)
(***************************************************************************)
MT_N == 624
MT_M == 397

\* the one element of a singleton set; The({e(v) : v \in {d}}) evaluates d once
The(S) == CHOOSE x \in S : TRUE

\* a ^ b and a & b on n-bit values
RECURSIVE XorBits(_, _, _)
XorBits(a, b, n) ==
    IF n = 0 THEN 0
    ELSE ((a + b) % 2) + 2 * XorBits(a \div 2, b \div 2, n - 1)

RECURSIVE AndBits(_, _, _)
AndBits(a, b, n) ==
    IF n = 0 THEN 0
    ELSE (a % 2) * (b % 2) + 2 * AndBits(a \div 2, b \div 2, n - 1)

\* the tables of a ^ b and a & b on bytes: the entry of a, b is at
\* [a + 1][b + 1]; Xor8 holds (a ^ b) + 1, the index of the result
Xor8 ==
    [a \in 1 .. 256 |-> [b \in 1 .. 256 |-> XorBits(a - 1, b - 1, 8) + 1] \o <<>>] \o <<>>

And8 ==
    [a \in 1 .. 256 |-> [b \in 1 .. 256 |-> AndBits(a - 1, b - 1, 8)] \o <<>>] \o <<>>

Xor16(a, b) ==
    (Xor8[(a \div 256) + 1][(b \div 256) + 1] - 1) * 256
        + (Xor8[(a % 256) + 1][(b % 256) + 1] - 1)

And16(a, b) ==
    And8[(a \div 256) + 1][(b \div 256) + 1] * 256 + And8[(a % 256) + 1][(b % 256) + 1]

\* 32-bit words
Xor32(x, y) == <<Xor16(x[1], y[1]), Xor16(x[2], y[2])>>

And32(x, y) == <<And16(x[1], y[1]), And16(x[2], y[2])>>

\* (x + y) & 0xffffffff and (x - y) & 0xffffffff
Add32(x, y) ==
    <<(x[1] + y[1] + ((x[2] + y[2]) \div 65536)) % 65536, (x[2] + y[2]) % 65536>>

Sub32(x, y) ==
    <<(x[1] - y[1] - (IF x[2] < y[2] THEN 1 ELSE 0) + 65536) % 65536,
      (x[2] - y[2] + 65536) % 65536>>

\* the 32-bit product of two 16-bit values, from the products of the two
\* bytes of a with b
Mul16(a, b) ==
    The({<<(q \div 256) + ((p + (q % 256) * 256) \div 65536),
           (p + (q % 256) * 256) % 65536>>
         : p \in {(a % 256) * b}, q \in {(a \div 256) * b}})

\* (a * b) & 0xffff
MulLow16(a, b) == ((a % 256) * b + (((a \div 256) * b) % 256) * 256) % 65536

\* (x * y) & 0xffffffff
Mul32(x, y) ==
    The({<<(ll[1] + MulLow16(x[1], y[2]) + MulLow16(x[2], y[1])) % 65536, ll[2]>>
         : ll \in {Mul16(x[2], y[2])}})

\* x >> 30
Shr30(x) == <<0, x[1] \div 16384>>

\* a sequential loop body(i, st) for i = lo .. hi, run as two halves
RECURSIVE SeedLoop(_, _, _, _, _)
SeedLoop(kind, key, st, lo, hi) ==
    IF lo > hi THEN st
    ELSE IF lo = hi
    THEN The({[st EXCEPT ![lo + 1] =
                 CASE kind = 0 ->
                        \* mt[i] = 1812433253 * (mt[i-1] ^ (mt[i-1] >> 30)) + i
                        Add32(Mul32(<<27655, 35173>>, Xor32(prev, Shr30(prev))),
                              <<0, lo>>)
                   [] kind = 1 ->
                        \* mt[i] = (mt[i] ^ ((mt[i-1] ^ (mt[i-1] >> 30))
                        \*          * 1664525)) + init_key[j] + j
                        Add32(Xor32(st[lo + 1], Mul32(Xor32(prev, Shr30(prev)),
                                                  <<25, 26125>>)),
                              key)
                   [] kind = 2 ->
                        \* mt[i] = (mt[i] ^ ((mt[i-1] ^ (mt[i-1] >> 30))
                        \*          * 1566083941)) - i
                        Sub32(Xor32(st[lo + 1], Mul32(Xor32(prev, Shr30(prev)),
                                                  <<23896, 35685>>)),
                              <<0, lo>>)]
              : prev \in {st[lo]}})
    ELSE The({SeedLoop(kind, key, first, ((lo + hi) \div 2) + 1, hi)
              : first \in {SeedLoop(kind, key, st, lo, (lo + hi) \div 2)}})

\* init_genrand(19650218)
init_genrand ==
    SeedLoop(0, <<0, 0>>,
             [i \in 1 .. MT_N |-> IF i = 1 THEN <<299, 54954>> ELSE <<0, 0>>] \o <<>>,
             1, MT_N - 1)

\* init_by_array(init_key, 1) for a key of one word: j stays 0
init_by_array(key) ==
    The({The({The({The({[d EXCEPT ![1] = <<32768, 0>>]
                        : d \in {SeedLoop(2, key, [c EXCEPT ![1] = c[MT_N]], 1, 1)}})
                   : c \in {SeedLoop(2, key, b, 2, MT_N - 1)}})
              : b \in {SeedLoop(1, key, [a EXCEPT ![1] = a[MT_N]], 1, 1)}})
         : a \in {SeedLoop(1, key, init_genrand, 1, MT_N - 1)}})

\* the four bytes of the word <<hi, lo>>
Bytes(x) ==
    <<(x[1] \div 256) + 1, (x[1] % 256) + 1, (x[2] \div 256) + 1, (x[2] % 256) + 1>>

\* random.Random(seed) for 0 <= seed < 2^32, seed = <<hi, lo>>
Random(seed) ==
    The({[mt |-> [i \in 1 .. MT_N |-> Bytes(st[i])] \o <<>>, mti |-> MT_N]
         : st \in {init_by_array(seed)}})

\* y = (mt[kk] & UPPER_MASK) | (mt[kk+1] & LOWER_MASK): the top byte of y >> 1
\* from the top bytes a of mt[kk] and b of mt[kk+1]
UpperLower ==
    [a \in 1 .. 256 |-> [b \in 1 .. 256 |->
        ((a - 1) \div 128) * 64 + (((b - 1) % 128) \div 2) + 1] \o <<>>] \o <<>>

\* a lower byte of y >> 1 from the byte a above it and the byte b itself
Shr1 ==
    [a \in 1 .. 256 |-> [b \in 1 .. 256 |->
        ((a - 1) % 2) * 128 + ((b - 1) \div 2) + 1] \o <<>>] \o <<>>

\* byte i of mag01[y & 1] = {0, 0x9908b0df}[y & 1], b the lowest byte of y
Mag01 ==
    [i \in 1 .. 4 |-> [b \in 1 .. 256 |->
        IF (b - 1) % 2 = 1 THEN <<153, 8, 176, 223>>[i] + 1 ELSE 1] \o <<>>] \o <<>>

\* mt[kk] = mt[kk+M] ^ (y >> 1) ^ mag01[y & 1], with cur = mt[kk],
\* nxt = mt[kk+1], far = mt[kk+M]
Twist(cur, nxt, far) ==
    <<Xor8[Xor8[far[1]][UpperLower[cur[1]][nxt[1]]]][Mag01[1][nxt[4]]],
      Xor8[Xor8[far[2]][Shr1[nxt[1]][nxt[2]]]][Mag01[2][nxt[4]]],
      Xor8[Xor8[far[3]][Shr1[nxt[2]][nxt[3]]]][Mag01[3][nxt[4]]],
      Xor8[Xor8[far[4]][Shr1[nxt[3]][nxt[4]]]][Mag01[4][nxt[4]]]>>

\* the 624 words generated when mti reaches N: the words 0 .. N-M-1 from the
\* old state, the next N-M from these, the rest but one from those, and the
\* last from the new words 0 and M-1
NextBlock(mt) ==
    The({The({The({a \o b \o c \o <<Twist(mt[MT_N], a[1], b[2 * MT_M - MT_N])>>
                   : c \in {[j \in 1 .. (2 * MT_M - MT_N - 1) |->
                               Twist(mt[j + 2 * (MT_N - MT_M)],
                                     mt[j + 2 * (MT_N - MT_M) + 1], b[j])] \o <<>>}})
              : b \in {[j \in 1 .. (MT_N - MT_M) |->
                          Twist(mt[j + MT_N - MT_M], mt[j + MT_N - MT_M + 1], a[j])]
                       \o <<>>}})
         : a \in {[j \in 1 .. (MT_N - MT_M) |->
                     Twist(mt[j], mt[j + 1], mt[j + MT_M])] \o <<>>}})

\* y ^= y >> 11; y ^= (y << 7) & 0x9d2c5680; y ^= (y << 15) & 0xefc60000;
\* y ^= y >> 18
Temper(y0) ==
    The({The({The({Xor32(y3, <<0, y3[1] \div 4>>)
                   : y3 \in {Xor32(y2, And32(<<(y2[1] % 2) * 32768 + (y2[2] \div 2),
                                               (y2[2] % 2) * 32768>>,
                                             <<61382, 0>>))}})
              : y2 \in {Xor32(y1, And32(<<(y1[1] % 512) * 128 + (y1[2] \div 512),
                                          (y1[2] % 512) * 128>>,
                                        <<40236, 22144>>))}})
         : y1 \in {Xor32(y0, <<y0[1] \div 2048,
                              (y0[1] % 2048) * 32 + (y0[2] \div 2048)>>)}})

\* the top byte of Temper(y).  Temper is made of shifts, masks and xors, so
\* Temper(a ^ b) = Temper(a) ^ Temper(b): the top byte of the tempered word
\* is the xor of the top bytes of its four tempered bytes
TemperByte ==
    [j \in 1 .. 4 |-> [b \in 1 .. 256 |->
        (Temper(CASE j = 1 -> <<(b - 1) * 256, 0>>
                  [] j = 2 -> <<b - 1, 0>>
                  [] j = 3 -> <<0, (b - 1) * 256>>
                  [] j = 4 -> <<0, b - 1>>)[1] \div 256) + 1] \o <<>>] \o <<>>

\* the top byte of the tempered word y
TemperTop(y) ==
    Xor8[Xor8[TemperByte[1][y[1]]][TemperByte[2][y[2]]]]
        [Xor8[TemperByte[3][y[3]]][TemperByte[4][y[4]]]]

\* genrand_uint32: the generator ready to give its next word
Ready(rng) ==
    IF rng.mti >= MT_N THEN [mt |-> NextBlock(rng.mt), mti |-> 0] ELSE rng

\* n.bit_length()
RECURSIVE bit_length(_)
bit_length(n) == IF n = 0 THEN 0 ELSE 1 + bit_length(n \div 2)

\* the top k bits of a byte b, 0 < k <= 8
TopBits ==
    [k \in 1 .. 8 |-> [b \in 1 .. 256 |->
        (b - 1) \div <<128, 64, 32, 16, 8, 4, 2, 1>>[k]] \o <<>>] \o <<>>

\* getrandbits(k) for 0 < k <= 8: genrand_uint32() >> (32 - k); the value
\* and the generator after it
getrandbits(rng, k) ==
    The({[value |-> TopBits[k][TemperTop(r.mt[r.mti + 1])],
          rng |-> [mt |-> r.mt, mti |-> r.mti + 1]]
         : r \in {Ready(rng)}})

\* _randbelow_with_getrandbits(n): k = n.bit_length(); r = getrandbits(k);
\* while r >= n: r = getrandbits(k).  The value and the generator after it
RECURSIVE RandBelowLoop(_, _, _)
RandBelowLoop(rng, m, k) ==
    The({IF g.value < m THEN g ELSE RandBelowLoop(g.rng, m, k)
         : g \in {getrandbits(rng, k)}})

RandBelow(rng, m) == RandBelowLoop(rng, m, bit_length(m))

\* rng._randbelow(m): the value drawn
randbelow(rng, m) == RandBelow(rng, m).value

\* the generator after rng._randbelow(m)
drawn(rng, m) == RandBelow(rng, m).rng

\* rng.shuffle(x): for i in reversed(range(1, len(x))): j = randbelow(i + 1);
\* x[i], x[j] = x[j], x[i].  One pass of the loop body, on [x, rng]:
ShuffleStep(st, i) ==
    The({[x |-> [st.x EXCEPT ![i + 1] = st.x[g.value + 1],
                              ![g.value + 1] = st.x[i + 1]],
          rng |-> g.rng] :
            g \in {RandBelow(st.rng, i + 1)}})

\* the passes i = hi, hi - 1, ..., lo, run as two halves one after the other
RECURSIVE ShuffleLoop(_, _, _)
ShuffleLoop(st, hi, lo) ==
    IF hi < lo THEN st
    ELSE IF hi = lo THEN ShuffleStep(st, hi)
    ELSE The({ShuffleLoop(upper, (hi + lo) \div 2, lo) :
                 upper \in {ShuffleLoop(st, hi, (hi + lo) \div 2 + 1)}})

rng_shuffle(x, rng) == ShuffleLoop([x |-> x, rng |-> rng], Len(x) - 1, 1)

(***************************************************************************)
(* hero.py _build_determinized_env_from_obs(obs, rng, max_tries=80)        *)
(***************************************************************************)
max_tries == 80

\* played_mask | my_hand | the cards of the trick in progress
unavailable(o) ==
    o.played_mask \cup o.hand_mask
        \cup {o.trick_cards[i] : i \in {j \in 1 .. 4 : o.trick_cards[j] >= 0}}

\* [c for c in range(40) if ((unavailable >> c) & 1) == 0]
remaining(o) ==
    The({SelectSeq([i \in 1 .. NUM_CARDS |-> i - 1], LAMBDA c : c \notin u) :
            u \in {unavailable(o)}})

played_by(o, p) ==
    o.trick_index
        + (IF \E i \in 1 .. o.trick_len : o.trick_players[i] = p THEN 1 ELSE 0)

need(o) ==
    [p \in Players |-> IF p = o.player THEN 0 ELSE NUM_TRICKS - played_by(o, p)]

by_suit(o) ==
    LET rem == remaining(o)
    IN  [s \in Suits |-> SelectSeq(rem, LAMBDA c : CARD_SUIT(c) = s)]

\* for s in range(4): rng.shuffle(pools[s])
RECURSIVE ShufflePools(_, _, _)
ShufflePools(pools, rng, s) ==
    IF s = NUM_SUITS THEN [pools |-> pools, rng |-> rng]
    ELSE The({ShufflePools([pools EXCEPT ![s] = r.x], r.rng, s + 1) :
                 r \in {rng_shuffle(pools[s], rng)}})

\* variant: the void marks are not consulted
Allowed_anysuit(void, pools, p) ==
    {s \in Suits : pools[s] # <<>>}

\* allowed = [s for s in range(4) if (not void[p][s]) and pools[s]]
Allowed(void, pools, p) ==
    {s \in Suits : ~void[<<p, s>>] /\ pools[s] # <<>>}

\* max(allowed, key=len(pools[ss])): the first suit of maximal pool
LongestPool(allowed, pools) ==
    CHOOSE s \in allowed :
       /\ \A t \in allowed : Len(pools[t]) <= Len(pools[s])
       /\ \A t \in allowed : t < s => Len(pools[t]) < Len(pools[s])

\* one pass of "for _k in range(need[p])" on st = [ok, pools, m], m the mask
\* dealt to p so far: no allowed suit clears ok, else the last card of the
\* longest allowed pool goes to p
DealStep(void, p, st) ==
    The({IF allowed = {} THEN [st EXCEPT !.ok = FALSE]
         ELSE The({[ok |-> TRUE,
                    pools |-> [st.pools EXCEPT ![s] = SubSeq(@, 1, Len(@) - 1)],
                    m |-> OrCard(st.m, st.pools[s][Len(st.pools[s])])]
                   : s \in {LongestPool(allowed, st.pools)}})
         : allowed \in {Allowed(void, st.pools, p)}})

\* k consecutive passes, stopping at the break; run as two halves
RECURSIVE DealPlayer(_, _, _, _)
DealPlayer(void, p, st, k) ==
    IF ~st.ok \/ k <= 0 THEN st
    ELSE IF k = 1 THEN DealStep(void, p, st)
    ELSE The({DealPlayer(void, p, half, k - k \div 2) :
                 half \in {DealPlayer(void, p, st, k \div 2)}})

\* "for p in range(4)" of one try, from player p on
RECURSIVE DealLoop(_, _, _, _, _, _)
DealLoop(void, nd, me, pools, hs, p) ==
    IF p = NUM_PLAYERS THEN [ok |-> TRUE, hands |-> hs]
    ELSE IF p = me THEN DealLoop(void, nd, me, pools, hs, p + 1)
    ELSE The({IF ~r.ok THEN [ok |-> FALSE, hands |-> hs]
              ELSE DealLoop(void, nd, me, r.pools, [hs EXCEPT ![p] = r.m], p + 1)
              : r \in {DealPlayer(void, p, [ok |-> TRUE, pools |-> pools, m |-> {}],
                                  nd[p])}})

\* MaraffaEnv(seed=0) with the fields assigned from obs and the dealt hands
DeterminizedEnv(o, hs) ==
    [deck |-> [i \in 1 .. NUM_CARDS |-> i - 1],
     hands |-> hs,
     current_player |-> o.current_player,
     declarer |-> o.declarer,
     choose_trump_phase |-> o.choose_trump_phase,
     trump_suit |-> o.trump_suit,
     trick_cards |-> o.trick_cards,
     trick_players |-> o.trick_players,
     trick_len |-> o.trick_len,
     lead_suit |-> o.lead_suit,
     trick_index |-> o.trick_index,
     scores_thirds |-> o.scores_thirds,
     bonus_team |-> o.bonus_team,
     played_mask |-> o.played_mask,
     trick_history |-> o.trick_history,
     done |-> o.done]

\* hands[me] = my_hand, the others empty
FixedHands(o) == [p \in Players |-> IF p = o.player THEN o.hand_mask ELSE {}]

\* the fallback after the loop: shuffle remaining, deal it in order
FallbackDeal(o, rng) ==
    The({LET nd == need(o)
             start(p) == IF p = 0 THEN 0
                         ELSE IF p = 1 THEN nd[0]
                         ELSE IF p = 2 THEN nd[0] + nd[1]
                         ELSE nd[0] + nd[1] + nd[2]
             hs == [p \in Players |->
                      IF p = o.player THEN o.hand_mask
                      ELSE {sh.x[i] : i \in (start(p) + 1) .. (start(p) + nd[p])}]
         IN  [env |-> DeterminizedEnv(o, hs), returned |-> "fallback", rng |-> sh.rng]
         : sh \in {rng_shuffle(remaining(o), rng)}})

\* one pass of the body of "for _ in range(max_tries)": shuffle the pools,
\* deal; "returned" names the return statement taken and is not part of the
\* value returned
OneTry(o, void, nd, suits, rng) ==
    The({The({IF d.ok
              THEN [env |-> DeterminizedEnv(o, d.hands),
                    returned |-> "constrained", rng |-> sh.rng]
              ELSE [env |-> NoDet, returned |-> "none", rng |-> sh.rng]
              : d \in {DealLoop(void, nd, o.player, sh.pools, FixedHands(o), 0)}})
         : sh \in {ShufflePools(suits, rng, 0)}})

\* n consecutive passes of the loop from generator rng, stopping at the first
\* that returns; the passes are run as two halves one after the other
RECURSIVE TryLoop(_, _, _, _, _, _)
TryLoop(o, void, nd, suits, rng, n) ==
    IF n = 1 THEN OneTry(o, void, nd, suits, rng)
    ELSE The({IF first.returned # "none" THEN first
              ELSE TryLoop(o, void, nd, suits, first.rng, n - n \div 2)
              : first \in {TryLoop(o, void, nd, suits, rng, n \div 2)}})

\* the loop, then the fallback when no pass returned
build_determinized_env_from_obs(o, rng) ==
    The({IF tried.returned # "none" THEN tried ELSE FallbackDeal(o, tried.rng)
         : tried \in {TryLoop(o, public_void_suits(o), need(o), by_suit(o),
                               rng, max_tries)}})

(***************************************************************************)
(* agent.py _current_winning_team(obs), _wins_if_played(obs, player, card) *)
(* and their twins of hero.py.  Positions of a sequence stand for the      *)
(* indices of the Python list plus one.                                    *)
(***************************************************************************)
\* agent.py: "for i in range(trick_len)" / "for i, c in enumerate(cards)"
\* from position i on, over the first n cards
RECURSIVE agent_best_i(_, _, _, _, _, _, _, _)
agent_best_i(cards, n, has_trump, trump, lead, i, best_i, best_s) ==
    IF i > n THEN best_i
    ELSE IF (IF has_trump THEN CARD_SUIT(cards[i]) # trump
             ELSE CARD_SUIT(cards[i]) # lead)
         THEN agent_best_i(cards, n, has_trump, trump, lead, i + 1, best_i, best_s)
    ELSE IF CARD_STRENGTH(cards[i]) > best_s
         THEN agent_best_i(cards, n, has_trump, trump, lead, i + 1, i,
                           CARD_STRENGTH(cards[i]))
    ELSE agent_best_i(cards, n, has_trump, trump, lead, i + 1, best_i, best_s)

agent_current_winning_team(o) ==
    IF o.trick_len = 0 THEN -1
    ELSE LET has_trump == \E i \in 1 .. o.trick_len :
                             CARD_SUIT(o.trick_cards[i]) = o.trump_suit
         IN  team_of(o.trick_players[
                 agent_best_i(o.trick_cards, o.trick_len, has_trump,
                              o.trump_suit, o.lead_suit, 1, 1, -1)])

\* variant: has_trump looks at the cards on the table only
agent_wins_if_played_table(o, player, card) ==
    IF o.trick_len = 0 THEN FALSE
    ELSE LET cards == Append(SubSeq(o.trick_cards, 1, o.trick_len), card)
             players == Append(SubSeq(o.trick_players, 1, o.trick_len), player)
             has_trump == \E i \in 1 .. o.trick_len :
                             CARD_SUIT(cards[i]) = o.trump_suit
         IN  players[agent_best_i(cards, Len(cards), has_trump,
                                  o.trump_suit, o.lead_suit, 1, 1, -1)] = player

agent_wins_if_played(o, player, card) ==
    IF o.trick_len = 0 THEN FALSE
    ELSE LET cards == Append(SubSeq(o.trick_cards, 1, o.trick_len), card)
             players == Append(SubSeq(o.trick_players, 1, o.trick_len), player)
             has_trump == \E i \in 1 .. Len(cards) :
                             CARD_SUIT(cards[i]) = o.trump_suit
         IN  players[agent_best_i(cards, Len(cards), has_trump,
                                  o.trump_suit, o.lead_suit, 1, 1, -1)] = player

\* hero.py: the same loop, lines 26-40 and 57-70
RECURSIVE hero_best_i(_, _, _, _, _, _, _, _)
hero_best_i(cards, n, has_trump, trump, lead, i, best_i, best_s) ==
    IF i > n THEN best_i
    ELSE IF has_trump /\ CARD_SUIT(cards[i]) # trump
         THEN hero_best_i(cards, n, has_trump, trump, lead, i + 1, best_i, best_s)
    ELSE IF ~has_trump /\ CARD_SUIT(cards[i]) # lead
         THEN hero_best_i(cards, n, has_trump, trump, lead, i + 1, best_i, best_s)
    ELSE IF CARD_STRENGTH(cards[i]) > best_s
         THEN hero_best_i(cards, n, has_trump, trump, lead, i + 1, i,
                          CARD_STRENGTH(cards[i]))
    ELSE hero_best_i(cards, n, has_trump, trump, lead, i + 1, best_i, best_s)

hero_current_winner_team(o) ==
    IF o.trick_len = 0 THEN -1
    ELSE LET has_trump == \E i \in 1 .. o.trick_len :
                             CARD_SUIT(o.trick_cards[i]) = o.trump_suit
         IN  team_of(o.trick_players[
                 hero_best_i(o.trick_cards, o.trick_len, has_trump,
                             o.trump_suit, o.lead_suit, 1, 1, -1)])

hero_wins_if_played(o, player, card) ==
    IF o.trick_len = 0 THEN FALSE
    ELSE LET cards2 == Append(SubSeq(o.trick_cards, 1, o.trick_len), card)
             players2 == Append(SubSeq(o.trick_players, 1, o.trick_len), player)
             has_trump == \E i \in 1 .. Len(cards2) :
                             CARD_SUIT(cards2[i]) = o.trump_suit
         IN  players2[hero_best_i(cards2, Len(cards2), has_trump,
                                  o.trump_suit, o.lead_suit, 1, 1, -1)] = player

(***************************************************************************)
(* The methods of MaraffaEnv on an env object other than the game's: the   *)
(* determinized env e of a Monte-Carlo sample, a record of the fields.     *)
(***************************************************************************)
\* e.legal_actions(player)
sim_legal_actions(e, player) ==
    IF e.choose_trump_phase
    THEN IF player # e.current_player THEN <<>> ELSE <<0, 1, 2, 3>>
    ELSE LET hand == e.hands[player]
             led == hand \cap SUIT_MASKS(e.lead_suit)
         IN  IF e.trick_len = 0 THEN iter_cards(hand)
             ELSE IF led # {} THEN iter_cards(led)
             ELSE iter_cards(hand)

\* e.obs(player=player)
sim_obs(e, player) ==
    [current_player |-> e.current_player,
     declarer |-> e.declarer,
     choose_trump_phase |-> e.choose_trump_phase,
     trump_suit |-> e.trump_suit,
     trick_cards |-> e.trick_cards,
     trick_players |-> e.trick_players,
     trick_len |-> e.trick_len,
     lead_suit |-> e.lead_suit,
     trick_index |-> e.trick_index,
     scores_thirds |-> e.scores_thirds,
     bonus_team |-> e.bonus_team,
     played_mask |-> e.played_mask,
     trick_history |-> e.trick_history,
     done |-> e.done,
     player |-> player,
     hand_mask |-> e.hands[player]]

\* e._declare_trump(suit), for a suit of 0..3
sim_declare_trump(e, suit) ==
    [e EXCEPT !.trump_suit = suit,
              !.choose_trump_phase = FALSE,
              !.bonus_team = BonusTeam(e.hands, suit)]

\* e._play_card(player, card)
sim_play_card(e, player, card) ==
    LET pos == e.trick_len
        tc == [e.trick_cards EXCEPT ![pos + 1] = card]
        tp == [e.trick_players EXCEPT ![pos + 1] = player]
        ls == IF pos = 0 THEN CARD_SUIT(card) ELSE e.lead_suit
        res == resolve_trick(tc, tp, e.trump_suit, ls)
        winner == res[1]
        thirds == res[2]
        h == [e.hands EXCEPT ![player] = XorCard(@, card)]
        pm == OrCard(e.played_mask, card)
    IN  IF pos + 1 < NUM_PLAYERS
        THEN [e EXCEPT !.hands = h, !.played_mask = pm,
                       !.trick_cards = tc, !.trick_players = tp,
                       !.trick_len = pos + 1, !.lead_suit = ls,
                       !.current_player = NextSeat(player)]
        ELSE [e EXCEPT !.hands = h, !.played_mask = pm,
                       !.trick_history = Append(@, <<ls, tp, tc>>),
                       !.trick_index = @ + 1,
                       !.scores_thirds =
                           EndBonus(AddThirds(@, team_of(winner), thirds),
                                    e.trick_index + 1, e.bonus_team),
                       !.trick_cards = EMPTY_TRICK,
                       !.trick_players = EMPTY_TRICK,
                       !.trick_len = 0, !.lead_suit = -1,
                       !.current_player = winner,
                       !.done = IF e.trick_index + 1 = NUM_TRICKS THEN TRUE ELSE @]

\* e.step(action), for an action of e.legal_actions(e.current_player)
sim_step(e, action) ==
    IF e.done THEN e
    ELSE IF e.choose_trump_phase
    THEN [sim_declare_trump(e, action) EXCEPT !.current_player = e.declarer]
    ELSE sim_play_card(e, e.current_player, action)

(***************************************************************************)
(* 64-bit floats (IEEE 754 binary64, round to nearest, ties to even) for   *)
(* the scores whose last bits decide between candidates.  A float is       *)
(* [neg, exp, man]: (-1)^neg * man * 2^exp with man a whole number of      *)
(* exactly 53 bits, kept as four limbs of 14 bits, most significant first; *)
(* 0.0 is the float of man = 0 (the sign of a zero decides nothing here).  *)
(* Sums and products are formed exactly on eight limbs and rounded once.   *)
(* The values met are far from overflow and from the subnormal range.      *)
(***************************************************************************)
FLimb == 16384

NoLimbs == <<0, 0, 0, 0>>

Abs(d) == IF d < 0 THEN -d ELSE d

FloatZero == [neg |-> FALSE, exp |-> 0, man |-> NoLimbs]

\* the number of bits of the whole number w, limbs from position i on
RECURSIVE WBitLen(_, _)
WBitLen(w, i) ==
    IF i > Len(w) THEN 0
    ELSE IF w[i] # 0 THEN 14 * (Len(w) - i) + bit_length(w[i])
    ELSE WBitLen(w, i + 1)

\* w \div 2^k
WShr(w, k) ==
    The({[i \in 1 .. Len(w) |->
             (IF i - q >= 1 THEN w[i - q] \div low ELSE 0)
               + (IF i - q - 1 >= 1 THEN (w[i - q - 1] % low) * high ELSE 0)] \o <<>>
         : q \in {k \div 14}, low \in {2 ^ (k % 14)}, high \in {2 ^ (14 - (k % 14))}})

\* w * 2^k, the product within the limbs of w
WShl(w, k) ==
    The({[i \in 1 .. Len(w) |->
             (IF i + q <= Len(w) THEN (w[i + q] % high) * low ELSE 0)
               + (IF i + q + 1 <= Len(w) THEN w[i + q + 1] \div high ELSE 0)] \o <<>>
         : q \in {k \div 14}, low \in {2 ^ (k % 14)}, high \in {2 ^ (14 - (k % 14))}})

\* bit k of w, bit 0 the least significant
WBit(w, k) == (w[Len(w) - (k \div 14)] \div (2 ^ (k % 14))) % 2

\* w % 2^k # 0
WLow(w, k) ==
    \E i \in 1 .. Len(w) :
       IF 14 * (Len(w) - i) + 14 <= k THEN w[i] # 0
       ELSE IF 14 * (Len(w) - i) < k THEN w[i] % (2 ^ (k - 14 * (Len(w) - i))) # 0
       ELSE FALSE

\* the limbs of the whole number sum of cols[i] * 2^(14 * (Len - i)), from
\* position i down, with the carry (or borrow) c from below
RECURSIVE Carry(_, _, _)
Carry(cols, i, c) ==
    IF i = 0 THEN <<>>
    ELSE Append(Carry(cols, i - 1, (cols[i] + c - ((cols[i] + c) % FLimb)) \div FLimb),
                (cols[i] + c) % FLimb)

WAdd(a, b) == Carry([i \in 1 .. Len(a) |-> a[i] + b[i]], Len(a), 0)

\* a - b - c for b + c <= a
WSub(a, b, c) == Carry([i \in 1 .. Len(a) |-> a[i] - b[i]], Len(a), 0 - c)

\* a * b for two mantissas, on eight limbs
WMul(a, b) ==
    Carry([p \in 1 .. 8 |->
              IF p = 1 THEN 0
              ELSE (IF p - 1 \in 1 .. 4 THEN a[1] * b[p - 1] ELSE 0)
                     + (IF p - 2 \in 1 .. 4 THEN a[2] * b[p - 2] ELSE 0)
                     + (IF p - 3 \in 1 .. 4 THEN a[3] * b[p - 3] ELSE 0)
                     + (IF p - 4 \in 1 .. 4 THEN a[4] * b[p - 4] ELSE 0)], 8, 0)

\* the quotient limbs of w \div n from position i on with remainder r from
\* above, followed by the remainder of the whole division; 0 < n < 2^17
RECURSIVE LongDiv(_, _, _, _)
LongDiv(w, n, i, r) ==
    IF i > Len(w) THEN <<r>>
    ELSE <<(r * FLimb + w[i]) \div n>> \o LongDiv(w, n, i + 1, (r * FLimb + w[i]) % n)

WLess(a, b) ==
    \E i \in 1 .. Len(a) : a[i] < b[i] /\ \A j \in 1 .. (i - 1) : a[j] = b[j]

\* the float nearest to (-1)^neg * (w + f) * 2^exp, w on eight limbs, with
\* 0 < f < 1 if sticky and f = 0 otherwise; sticky only when w has more
\* than 53 bits
FloatRound(neg, w, sticky, exp) ==
    The({IF len = 0 THEN FloatZero
         ELSE IF len <= 53
         THEN [neg |-> neg, exp |-> exp - (53 - len),
               man |-> SubSeq(WShl(w, 53 - len), 5, 8)]
         ELSE The({IF q[5] >= 2048
                   THEN [neg |-> neg, exp |-> exp + len - 52,
                         man |-> SubSeq(WShr(q, 1), 5, 8)]
                   ELSE [neg |-> neg, exp |-> exp + len - 53, man |-> SubSeq(q, 5, 8)]
                   : q \in {IF /\ WBit(w, len - 54) = 1
                               /\ (sticky \/ WLow(w, len - 54) \/ WBit(w, len - 53) = 1)
                            THEN WAdd(WShr(w, len - 53), <<0, 0, 0, 0, 0, 0, 0, 1>>)
                            ELSE WShr(w, len - 53)}})
         : len \in {WBitLen(w, 1)}})

\* float(k) for a whole number k, |k| < 2^28
FromInt(k) ==
    FloatRound(k < 0, <<0, 0, 0, 0, 0, 0, Abs(k) \div FLimb, Abs(k) % FLimb>>, FALSE, 0)

\* |x| < |y| for two floats other than 0.0
MagLess(x, y) == x.exp < y.exp \/ (x.exp = y.exp /\ WLess(x.man, y.man))

\* big + small for |small| <= |big|, neither 0.0
AddOrdered(big, small) ==
    The({The({IF big.neg = small.neg
              THEN FloatRound(big.neg, WAdd(big.man \o NoLimbs, ws), lost, big.exp - 56)
              ELSE FloatRound(big.neg, WSub(big.man \o NoLimbs, ws, IF lost THEN 1 ELSE 0),
                              lost, big.exp - 56)
              : ws \in {WShr(small.man \o NoLimbs, d)},
                lost \in {WLow(small.man \o NoLimbs, d)}})
         : d \in {big.exp - small.exp}})

\* x + y
FloatAdd(x, y) ==
    IF x.man = NoLimbs THEN y
    ELSE IF y.man = NoLimbs THEN x
    ELSE IF MagLess(x, y) THEN AddOrdered(y, x)
    ELSE AddOrdered(x, y)

\* x - y
FloatSub(x, y) == IF y.man = NoLimbs THEN x ELSE FloatAdd(x, [y EXCEPT !.neg = ~y.neg])

\* x * y
FloatMul(x, y) ==
    IF x.man = NoLimbs \/ y.man = NoLimbs THEN FloatZero
    ELSE FloatRound(x.neg # y.neg, WMul(x.man, y.man), FALSE, x.exp + y.exp)

\* x / float(n) for a whole number n, 0 < n < 2^17
FloatDiv(x, n) ==
    IF x.man = NoLimbs THEN FloatZero
    ELSE The({FloatRound(x.neg, SubSeq(q, 1, 8), q[9] # 0, x.exp - 56)
              : q \in {LongDiv(x.man \o NoLimbs, n, 1, 0)}})

\* x < y
FloatLess(x, y) ==
    IF x.man = NoLimbs THEN y.man # NoLimbs /\ ~y.neg
    ELSE IF y.man = NoLimbs THEN x.neg
    ELSE IF x.neg # y.neg THEN x.neg
    ELSE IF x.neg THEN MagLess(y, x)
    ELSE MagLess(x, y)

\* "best_v = -1e18; for a in legal: if v > best_v": the position of the
\* first greatest of the floats vs
FirstGreatest(vs) ==
    CHOOSE i \in 1 .. Len(vs) :
       /\ \A j \in 1 .. Len(vs) : ~FloatLess(vs[i], vs[j])
       /\ \A j \in 1 .. (i - 1) : FloatLess(vs[j], vs[i])

(***************************************************************************)
(* Scores.  The policies score candidates in 64-bit floats.  The scores    *)
(* of HeroAgent that decide a step of the game (choose_trump, the lead     *)
(* score, the sample averages) are computed in those floats, operation by  *)
(* operation, and the first candidate of greatest float is returned.  The  *)
(* other scores are kept as integers, every weight in fixed-point and      *)
(* every feature over a common denominator, which orders any two           *)
(* candidates as the floats do whenever the exact values differ: where the *)
(* floats of equal exact values are themselves equal (every key of a       *)
(* following play, the lead score of agent.py) the first candidate is      *)
(* returned, as by the code; for choose_trump of agent.py, whose float     *)
(* sums of equal exact values can differ in the last bits, every suit of   *)
(* best exact score is a possible result.                                  *)
(***************************************************************************)
\* the scores of the elements, computed once
Scores(seq, score(_)) == [i \in 1 .. Len(seq) |-> score(seq[i])]

\* the first element of greatest / least score: "if sc > best_sc" and min()
FirstMax(seq, score(_)) ==
    The({seq[CHOOSE i \in 1 .. Len(seq) :
                /\ \A j \in 1 .. Len(seq) : sc[j] <= sc[i]
                /\ \A j \in 1 .. (i - 1) : sc[j] < sc[i]]
         : sc \in {Scores(seq, score)}})

FirstMin(seq, score(_)) ==
    The({seq[CHOOSE i \in 1 .. Len(seq) :
                /\ \A j \in 1 .. Len(seq) : sc[j] >= sc[i]
                /\ \A j \in 1 .. (i - 1) : sc[j] > sc[i]]
         : sc \in {Scores(seq, score)}})

\* the elements of greatest exact score
TiedMax(seq, score(_)) ==
    The({{seq[i] : i \in {k \in 1 .. Len(seq) :
                             \A j \in 1 .. Len(seq) : sc[j] <= sc[k]}}
         : sc \in {Scores(seq, score)}})

\* sums over the cards of a mask ("while mm:" of choose_trump)
RECURSIVE MaskThirds(_)
MaskThirds(m) ==
    IF m = {} THEN 0
    ELSE LET c == CHOOSE x \in m : TRUE
         IN  CARD_POINTS_THIRDS(c) + MaskThirds(m \ {c})

RECURSIVE MaskStrength(_)
MaskStrength(m) ==
    IF m = {} THEN 0
    ELSE LET c == CHOOSE x \in m : TRUE
         IN  CARD_STRENGTH(c) + MaskStrength(m \ {c})

Bit(mask, c) == IF c \in mask THEN 1 ELSE 0

\* points_on_table, in thirds; the code adds CARD_POINTS_THIRDS[c] / 3.0
RECURSIVE points_on_table(_, _)
points_on_table(o, i) ==
    IF i = 0 THEN 0
    ELSE points_on_table(o, i - 1)
             + (IF o.trick_cards[i] >= 0
                THEN CARD_POINTS_THIRDS(o.trick_cards[i]) ELSE 0)

(***************************************************************************)
(* agent.py Agent (heuristic_v0)                                           *)
(***************************************************************************)
\* PARAMS in millionths; params(i) is self.params[i]
PARAMS ==
    <<1195899, 237321, 1314556, 2915050, 2106176, 2268315, 1155172, 717393,
      4087117, 364108, 475832, 2088789, 8434659, 1005079, 927359, 381876,
      741953, 1495496, 1699127, 1950038, 2259093, -645225, 2180966, 886248,
      926998, 2143846>>

params(i) == PARAMS[i + 1]

\* 9 * v of choose_trump for suit s
agent_trump_value(hand, s) ==
    LET m == hand \cap SUIT_MASKS(s)
        base == s * 10
    IN  9 * params(0) * Cardinality(m) + 3 * params(1) * MaskThirds(m) + params(2) * MaskStrength(m)
          + 9 * (params(3) * Bit(hand, base) + params(4) * Bit(hand, base + 1)
                   + params(5) * Bit(hand, base + 2))

\* Agent.choose_trump(obs, legal): the suits it can return
agent_choose_trump(o, legal) ==
    TiedMax(legal, LAMBDA s : agent_trump_value(o.hand_mask, s))

\* 90 * sc of the lead branch for card c
agent_lead_score(o, c) ==
    LET tr == IF CARD_SUIT(c) = o.trump_suit THEN 1 ELSE 0
        endg == IF o.trick_index >= 7 THEN 1 ELSE 0
        suit_cnt == Cardinality(o.hand_mask \cap SUIT_MASKS(CARD_SUIT(c)))
    IN  30 * params(6) * CARD_POINTS_THIRDS(c) + 10 * params(7) * CARD_STRENGTH(c)
          - 90 * params(8) * tr + 90 * params(9) * tr * endg + 9 * params(10) * suit_cnt

\* points_on_table of agent.py 167-172, in thirds
agent_points_on_table(o) == points_on_table(o, o.trick_len)

\* variant: the candidates are the cards of the hand, not the legal list
agent_play_card_hand(o, legal) ==
    IF Len(legal) = 1 THEN legal[1]
    ELSE IF o.trick_len = 0
    THEN FirstMax(iter_cards(o.hand_mask), LAMBDA c : agent_lead_score(o, c))
    ELSE LET hand == iter_cards(o.hand_mask)
             partner_winning == agent_current_winning_team(o) = team_of(o.player)
             pot == agent_points_on_table(o)
             tr(c) == IF CARD_SUIT(c) = o.trump_suit THEN 1 ELSE 0
             winners == SelectSeq(hand, LAMBDA c : agent_wins_if_played(o, o.player, c))
         IN  IF partner_winning
             THEN IF /\ winners # <<>>
                     /\ \/ 1000000 * pot >= 3 * params(11)
                        \/ 1000000 * o.trick_index >= params(12)
                  THEN FirstMin(winners, LAMBDA c :
                           3 * params(13) * CARD_POINTS_THIRDS(c)
                             + 3 * params(14) * CARD_STRENGTH(c) - params(15) * pot)
                  ELSE FirstMin(hand, LAMBDA c :
                           params(16) * CARD_POINTS_THIRDS(c) + params(17) * CARD_STRENGTH(c)
                             + params(18) * tr(c))
             ELSE IF winners # <<>>
                  THEN FirstMin(winners, LAMBDA c :
                           3 * params(19) * CARD_POINTS_THIRDS(c)
                             + 3 * params(20) * CARD_STRENGTH(c) + 3 * params(21) * tr(c)
                             - params(22) * pot)
                  ELSE FirstMin(hand, LAMBDA c :
                           params(23) * CARD_POINTS_THIRDS(c) + params(24) * CARD_STRENGTH(c)
                             + params(25) * tr(c))

\* Agent.play_card(obs, legal)
agent_play_card(o, legal) ==
    IF Len(legal) = 1 THEN legal[1]
    ELSE IF o.trick_len = 0
    THEN FirstMax(legal, LAMBDA c : agent_lead_score(o, c))
    ELSE LET partner_winning == agent_current_winning_team(o) = team_of(o.player)
             pot == agent_points_on_table(o)
             tr(c) == IF CARD_SUIT(c) = o.trump_suit THEN 1 ELSE 0
             winners == SelectSeq(legal, LAMBDA c : agent_wins_if_played(o, o.player, c))
         IN  IF partner_winning
             THEN IF /\ winners # <<>>
                     /\ \/ 1000000 * pot >= 3 * params(11)
                        \/ 1000000 * o.trick_index >= params(12)
                  THEN FirstMin(winners, LAMBDA c :
                           3 * params(13) * CARD_POINTS_THIRDS(c)
                             + 3 * params(14) * CARD_STRENGTH(c) - params(15) * pot)
                  ELSE FirstMin(legal, LAMBDA c :
                           params(16) * CARD_POINTS_THIRDS(c) + params(17) * CARD_STRENGTH(c)
                             + params(18) * tr(c))
             ELSE IF winners # <<>>
                  THEN FirstMin(winners, LAMBDA c :
                           3 * params(19) * CARD_POINTS_THIRDS(c)
                             + 3 * params(20) * CARD_STRENGTH(c) + 3 * params(21) * tr(c)
                             - params(22) * pot)
                  ELSE FirstMin(legal, LAMBDA c :
                           params(23) * CARD_POINTS_THIRDS(c) + params(24) * CARD_STRENGTH(c)
                             + params(25) * tr(c))

(***************************************************************************)
(* match.py RandomAgent: rng.choice(legal) on the agent's own generator    *)
(***************************************************************************)
random_play_card(rng, legal) == legal[randbelow(rng, Len(legal)) + 1]

(***************************************************************************)
(* hero.py HeroAgent: the heuristic part                                   *)
(***************************************************************************)
\* the weights of the dataclass, in hundredths
HeroWeights ==
    [w_cnt |-> 120, w_pts |-> 25, w_str |-> 130, w_maraffa |-> 260,
     w_void_bonus |-> 25, w_seen_high |-> 30,
     w_lead_pts |-> 110, w_lead_str |-> 70, w_lead_trump_penalty |-> 350,
     w_lead_suit_len |-> 60, w_lead_seen_high |-> 80,
     w_lead_void_risk |-> 120, w_lead_suit_seen |-> 25, w_lead_draw_trump |-> 100,
     w_follow_win_low |-> 100, w_follow_win_take_pts |-> 130,
     w_follow_dump_low |-> 100, w_follow_dump_trump_penalty |-> 120]

seen_cards_mask(o) ==
    o.played_mask \cup {o.trick_cards[i] : i \in {j \in 1 .. 4 : o.trick_cards[j] >= 0}}

suit_seen_count(o, suit) == Cardinality(seen_cards_mask(o) \cap SUIT_MASKS(suit))

\* 3 * _high_cards_seen_fraction(obs, suit)
high_cards_seen(o, suit) ==
    Cardinality(seen_cards_mask(o) \cap {suit * 10, suit * 10 + 1, suit * 10 + 2})

\* the opponents of seat me: (me + 1) & 3 and (me + 3) & 3
opps(me) == {(me + 1) % 4, (me + 3) % 4}

void_risk_for_lead(o, suit) ==
    Cardinality({q \in opps(o.player) : VoidMark(o, q, suit)})

\* the float of a literal of the dataclass, given in hundredths
Weight(h) == FloatDiv(FromInt(h), 100)

\* the weights of choose_trump and of the lead score, as floats
HeroWeight ==
    [w_cnt |-> Weight(HeroWeights.w_cnt),
     w_pts |-> Weight(HeroWeights.w_pts),
     w_str |-> Weight(HeroWeights.w_str),
     w_maraffa |-> Weight(HeroWeights.w_maraffa),
     w_void_bonus |-> Weight(HeroWeights.w_void_bonus),
     w_seen_high |-> Weight(HeroWeights.w_seen_high),
     w_lead_pts |-> Weight(HeroWeights.w_lead_pts),
     w_lead_str |-> Weight(HeroWeights.w_lead_str),
     w_lead_trump_penalty |-> Weight(HeroWeights.w_lead_trump_penalty),
     w_lead_suit_len |-> Weight(HeroWeights.w_lead_suit_len),
     w_lead_seen_high |-> Weight(HeroWeights.w_lead_seen_high),
     w_lead_void_risk |-> Weight(HeroWeights.w_lead_void_risk),
     w_lead_suit_seen |-> Weight(HeroWeights.w_lead_suit_seen),
     w_lead_draw_trump |-> Weight(HeroWeights.w_lead_draw_trump)]

\* "while mm:" of choose_trump, lowest card first:
\* pts += CARD_POINTS_THIRDS[c] / 3.0
RECURSIVE MaskPoints(_)
MaskPoints(m) ==
    IF m = {} THEN FloatZero
    ELSE LET c == CHOOSE x \in m : \A y \in m : y <= x
         IN  FloatAdd(MaskPoints(m \ {c}), FloatDiv(FromInt(CARD_POINTS_THIRDS(c)), 3))

\* strn += CARD_STRENGTH[c] / 9.0
RECURSIVE MaskStrengths(_)
MaskStrengths(m) ==
    IF m = {} THEN FloatZero
    ELSE LET c == CHOOSE x \in m : \A y \in m : y <= x
         IN  FloatAdd(MaskStrengths(m \ {c}), FloatDiv(FromInt(CARD_STRENGTH(c)), 9))

\* void_bonus of choose_trump: 1.0 for each opponent void in s, 0.25 for the partner
hero_void_bonus(o, s) ==
    FloatAdd(FromInt(Cardinality({q \in opps(o.player) : VoidMark(o, q, s)})),
             IF VoidMark(o, (o.player + 2) % 4, s) THEN Weight(25) ELSE FloatZero)

\* v of choose_trump for suit s
hero_trump_value(o, s) ==
    LET w == HeroWeight
        m == o.hand_mask \cap SUIT_MASKS(s)
        has_maraffa == IF (o.hand_mask \cap MARAFFA_MASKS(s)) = MARAFFA_MASKS(s)
                       THEN 1 ELSE 0
    IN  FloatAdd(FloatAdd(FloatAdd(FloatAdd(FloatAdd(
            FloatMul(w.w_cnt, FromInt(Cardinality(m))),
            FloatMul(w.w_pts, MaskPoints(m))),
            FloatMul(w.w_str, MaskStrengths(m))),
            FloatMul(w.w_maraffa, FromInt(has_maraffa))),
            FloatMul(w.w_void_bonus, hero_void_bonus(o, s))),
            FloatMul(w.w_seen_high, FloatDiv(FromInt(high_cards_seen(o, s)), 3)))

\* HeroAgent.choose_trump(obs, legal): "if v > best_v"
hero_choose_trump(o, legal) ==
    legal[FirstGreatest([i \in 1 .. Len(legal) |-> hero_trump_value(o, legal[i])] \o <<>>)]

\* sc of the lead branch for card c
hero_lead_score(o, c) ==
    LET w == HeroWeight
        s == CARD_SUIT(c)
        tr == IF s = o.trump_suit THEN 1 ELSE 0
        \* 1.0 - endg
        early == FloatSub(FromInt(1), FromInt(IF o.trick_index >= 7 THEN 1 ELSE 0))
        opp_void_total ==
            Cardinality({qs \in opps(o.player) \X Suits : VoidMark(o, qs[1], qs[2])})
        have_trump == (o.hand_mask \cap SUIT_MASKS(o.trump_suit)) # {}
        suit_cnt == Cardinality(o.hand_mask \cap SUIT_MASKS(s))
        sc == FloatAdd(FloatSub(FloatAdd(FloatAdd(FloatSub(FloatAdd(FloatAdd(FloatZero,
                  FloatMul(w.w_lead_pts, FloatDiv(FromInt(CARD_POINTS_THIRDS(c)), 3))),
                  FloatMul(w.w_lead_str, FloatDiv(FromInt(CARD_STRENGTH(c)), 9))),
                  FloatMul(FloatMul(w.w_lead_trump_penalty, FromInt(tr)), early)),
                  FloatMul(w.w_lead_suit_len, FloatDiv(FromInt(suit_cnt), 10))),
                  FloatMul(w.w_lead_seen_high, FloatDiv(FromInt(high_cards_seen(o, s)), 3))),
                  FloatMul(FloatMul(w.w_lead_void_risk, FromInt(void_risk_for_lead(o, s))), early)),
                  FloatMul(w.w_lead_suit_seen, FloatDiv(FromInt(suit_seen_count(o, s)), 10)))
    IN  IF have_trump /\ tr > 0
        THEN FloatAdd(sc, FloatMul(FloatMul(w.w_lead_draw_trump,
                                            FloatDiv(FromInt(opp_void_total), 8)), early))
        ELSE sc

\* HeroAgent._heuristic_play_card(obs, legal)
hero_heuristic_play_card(o, legal) ==
    IF o.trick_len = 0
    THEN legal[FirstGreatest([i \in 1 .. Len(legal) |-> hero_lead_score(o, legal[i])] \o <<>>)]
    ELSE LET w == HeroWeights
             partner_winning == hero_current_winner_team(o) = team_of(o.player)
             pot == points_on_table(o, o.trick_len)
             tr(c) == IF CARD_SUIT(c) = o.trump_suit THEN 1 ELSE 0
             winners == SelectSeq(legal, LAMBDA c : hero_wins_if_played(o, o.player, c))
         IN  IF partner_winning
             THEN IF winners # <<>> /\ 2 * pot >= 9
                  THEN FirstMin(winners, LAMBDA c :
                            3 * w.w_follow_win_take_pts * CARD_POINTS_THIRDS(c)
                              + 3 * w.w_follow_win_low * CARD_STRENGTH(c) - 80 * pot)
                  ELSE FirstMin(legal, LAMBDA c :
                            w.w_follow_dump_low * CARD_POINTS_THIRDS(c)
                              + 90 * CARD_STRENGTH(c)
                              + w.w_follow_dump_trump_penalty * tr(c))
             ELSE IF winners # <<>>
                  THEN FirstMin(winners, LAMBDA c :
                            300 * CARD_POINTS_THIRDS(c) + 360 * CARD_STRENGTH(c)
                              + 330 * tr(c) - 100 * pot)
                  ELSE FirstMin(legal, LAMBDA c :
                            100 * CARD_POINTS_THIRDS(c) + 100 * CARD_STRENGTH(c)
                              + 100 * tr(c))

(***************************************************************************)
(* hero.py HeroAgent.play_card: the Monte-Carlo part, lines 486-530.       *)
(*                                                                         *)
(* The lists a sample could share with its caller are kept in a heap of    *)
(* named cells: "env" holds the game's trick_history list, the observation *)
(* holds the list of cell obs_history_cell and a sample's env the list of  *)
(* cell sample_history_cell.  Every other field a sample reads from the    *)
(* observation is an int or a tuple and cannot be written through.         *)
(***************************************************************************)
\* the default of the dataclass field
mc_enabled == TRUE

\* variant: any card worth points on the table opens the sampling
do_mc_anypoint(o, legal) ==
    /\ o.trick_len > 0
    /\ \/ points_on_table(o, o.trick_len) >= 1
       \/ Len(legal) >= 3

\* points_on_table >= 1.0 holds exactly from three thirds on
do_mc(o, legal) ==
    /\ o.trick_len > 0
    /\ \/ points_on_table(o, o.trick_len) >= 3
       \/ Len(legal) >= 3

\* play_card reaches the sampling loop
Samples(o, legal) == Len(legal) # 1 /\ mc_enabled /\ do_mc(o, legal)

\* variant: no shortcut for a single legal action
HeroBranch_noshortcut(o, legal) ==
    IF ~mc_enabled THEN "disabled"
    ELSE IF ~do_mc(o, legal) THEN "heuristic"
    ELSE "mc"

\* the return statement HeroAgent.play_card takes: line 466, line 470, line
\* 484, or line 530 after the sampling loop
HeroBranch(o, legal) ==
    IF Len(legal) = 1 THEN "single"
    ELSE IF ~mc_enabled THEN "disabled"
    ELSE IF ~do_mc(o, legal) THEN "heuristic"
    ELSE "mc"

\* the settings a HeroAgent is built with: the default, and a longer horizon
HeroConfigs ==
    {[mc_samples |-> 6, mc_rollout_tricks |-> 1],
     [mc_samples |-> 2, mc_rollout_tricks |-> 2]}

\* env_maraffa.py 143: obs carries self.trick_history[:], a list of its own
obs_history_cell == "obs"

\* variant: the env keeps the list of the observation
sample_history_cell_shared == obs_history_cell

\* hero.py 227: env.trick_history = obs.get("trick_history", [])[:], a list of
\* the sample's own
sample_history_cell == "sample"

\* the value of the bits b, b + 1, ..., 15 of a set of bit positions, over 2^b
RECURSIVE BitsValue(_, _)
BitsValue(S, b) ==
    IF b = 16 THEN 0 ELSE (IF b \in S THEN 1 ELSE 0) + 2 * BitsValue(S, b + 1)

\* the bits of 0xA11CE
A11CE == {1, 2, 3, 6, 7, 8, 12, 17, 19}

\* a ^ b on sets of bit positions
XorMask(a, b) == (a \ b) \cup (b \ a)

\* line 489: (played_mask ^ (hand_mask << 1) ^ 0xA11CE) & 0xFFFFFFFF
hero_seed(o) ==
    The({<<BitsValue({b - 16 : b \in bits \cap (16 .. 31)}, 0),
           BitsValue(bits \cap (0 .. 15), 0)>>
         : bits \in {XorMask(XorMask(o.played_mask, {c + 1 : c \in o.hand_mask}),
                             A11CE)}})

\* rng = random.Random(seed) of line 489
hero_rng(o) == Random(hero_seed(o))

\* (scores_thirds[my_team] - scores_thirds[1 - my_team]), in thirds
score_diff(e, my_team) == e.scores_thirds[my_team + 1] - e.scores_thirds[2 - my_team]

\* the rollout loop "while not env.done and env.trick_index < target_trick"
\* on st = [env, steps, forced]: steps counts the calls of env.step, forced
\* records the branch "if not legal2"
RECURSIVE rollout(_, _)
rollout(st, target_trick) ==
    IF st.env.done \/ ~(st.env.trick_index < target_trick) THEN st
    ELSE The({IF legal2 = <<>>
              THEN [env |-> [st.env EXCEPT !.done = TRUE],
                    steps |-> st.steps, forced |-> TRUE]
              ELSE The({rollout([env |-> sim_step(st.env, act2),
                                 steps |-> st.steps + 1,
                                 forced |-> st.forced], target_trick)
                        : act2 \in {IF st.env.choose_trump_phase
                                    THEN FirstMax(legal2, LAMBDA s :
                                             agent_trump_value(
                                                 st.env.hands[st.env.current_player], s))
                                    ELSE agent_play_card(
                                             sim_obs(st.env, st.env.current_player),
                                             legal2)}})
              : legal2 \in {sim_legal_actions(st.env, st.env.current_player)}})

\* one pass of "for _ in range(mc_samples)" for candidate a, on the state mc
\* of the decision: [rng, heap, acc, steps, forced, starts]
mc_sample(o, cfg, a, mc) ==
    LET my_team == team_of(o.player)
        now == [o EXCEPT !.trick_history = mc.heap[obs_history_cell]]
    IN  The({The({[rng |-> r.rng,
                   heap |-> [mc.heap EXCEPT ![sample_history_cell] =
                                 fin.env.trick_history],
                   acc |-> FloatAdd(mc.acc,
                               FloatSub(FloatDiv(FromInt(score_diff(fin.env, my_team)), 3),
                                        FloatDiv(FromInt(score_diff(r.env, my_team)), 3))),
                   steps |-> mc.steps \cup {fin.steps},
                   forced |-> mc.forced \/ fin.forced,
                   starts |-> mc.starts \cup {sim_obs(r.env, o.player)}]
                  : fin \in {The({rollout([env |-> e1, steps |-> 0, forced |-> FALSE],
                                          e1.trick_index + cfg.mc_rollout_tricks)
                                  : e1 \in {sim_step(r.env, a)}})}})
             : r \in {build_determinized_env_from_obs(now, mc.rng)}})

\* n passes of the inner loop, run as two halves
RECURSIVE mc_samples_loop(_, _, _, _, _)
mc_samples_loop(o, cfg, a, mc, n) ==
    IF n = 0 THEN mc
    ELSE IF n = 1 THEN mc_sample(o, cfg, a, mc)
    ELSE The({mc_samples_loop(o, cfg, a, half, n - n \div 2)
              : half \in {mc_samples_loop(o, cfg, a, mc, n \div 2)}})

\* "for a in legal", from position i on: dec = [rng, heap, vs, steps,
\* forced, starts], vs[i] the average v of legal[i]
RECURSIVE mc_actions_loop(_, _, _, _, _)
mc_actions_loop(o, cfg, legal, dec, i) ==
    IF i > Len(legal) THEN dec
    ELSE The({mc_actions_loop(o, cfg, legal,
                  [rng |-> mc.rng, heap |-> mc.heap,
                   vs |-> Append(dec.vs, FloatDiv(mc.acc, cfg.mc_samples)),
                   steps |-> mc.steps, forced |-> mc.forced,
                   starts |-> mc.starts], i + 1)
              : mc \in {mc_samples_loop(o, cfg, legal[i],
                            [rng |-> dec.rng, heap |-> dec.heap, acc |-> FloatZero,
                             steps |-> dec.steps, forced |-> dec.forced,
                             starts |-> dec.starts],
                            cfg.mc_samples)}})

\* HeroAgent.play_card(obs, legal) of a hero built with cfg, on the heap the
\* caller holds: the branch taken, the card returned, and what the
\* sampling did
hero_play_card(o, legal, cfg, heap) ==
    IF HeroBranch(o, legal) = "single"
    THEN [branch |-> "single", card |-> legal[1], cfg |-> cfg, heap |-> heap,
          steps |-> {}, forced |-> FALSE, starts |-> {}]
    ELSE IF HeroBranch(o, legal) # "mc"
    THEN [branch |-> HeroBranch(o, legal),
          card |-> hero_heuristic_play_card(o, legal), cfg |-> cfg, heap |-> heap,
          steps |-> {}, forced |-> FALSE, starts |-> {}]
    ELSE The({[branch |-> "mc",
               card |-> legal[FirstGreatest(dec.vs)],
               cfg |-> cfg, heap |-> dec.heap,
               steps |-> dec.steps, forced |-> dec.forced, starts |-> dec.starts]
              : dec \in {The({mc_actions_loop(o, cfg, legal, first, 1)
                              : first \in {[rng |-> hero_rng(o), heap |-> heap,
                                            vs |-> <<>>, steps |-> {},
                                            forced |-> FALSE, starts |-> {}]}})}})

(***************************************************************************)
(* Callers.  match.py play_hand / play_hand_from_state: reset, then while  *)
(* not done ask the policy of current_player for one of legal_actions and  *)
(* step it.  A policy is any function into the legal list; the exploration *)
(* follows legal[0] and leaves it at most MaxDevs times per hand.          *)
(***************************************************************************)
Min(a, b) == IF a <= b THEN a ELSE b

\* positions of the legal list a policy may answer in the current state
PolicyPositions(legal) ==
    IF devs < MaxDevs THEN 1 .. Min(MaxChoice, Len(legal))
    ELSE 1 .. Min(1, Len(legal))

Reset ==
    /\ resets < MaxResets
    /\ \E seed \in Seeds :
          /\ reset(seed)
          /\ last' = [op |-> "reset", arg |-> seed, legal |-> TRUE]
    /\ resets' = resets + 1
    /\ devs' = 0
    /\ NoHeroCall

\* loop body in the TrumpSelection phase: policy.choose_trump(obs, legal)
ChooseTrump ==
    /\ ~done
    /\ choose_trump_phase
    /\ LET legal == legal_actions(current_player)
       IN  \E i \in 1 .. Len(legal) :
              /\ step(legal[i])
              /\ last' = [op |-> "step", arg |-> legal[i], legal |-> TRUE]
    /\ UNCHANGED <<resets, devs>>
    /\ NoHeroCall

\* loop body in the Play phase: policy.play_card(obs, legal)
PlayCard ==
    /\ ~done
    /\ ~choose_trump_phase
    /\ LET legal == legal_actions(current_player)
       IN  \E i \in PolicyPositions(legal) :
              /\ step(legal[i])
              /\ last' = [op |-> "step", arg |-> legal[i], legal |-> TRUE]
              /\ devs' = IF i = 1 THEN devs ELSE devs + 1
    /\ UNCHANGED resets
    /\ NoHeroCall

\* step() on a finished hand
DoneProbe == {0, 39}

StepAfterDone ==
    /\ done
    /\ \E a \in DoneProbe :
          /\ step(a)
          /\ last' = [op |-> "step", arg |-> a, legal |-> FALSE]
    /\ UNCHANGED <<resets, devs>>
    /\ NoHeroCall

\* step() with an action outside legal_actions(current_player): a suit id
\* outside 0..3, a card the actor does not hold, a held card that breaks the
\* follow-suit rule
Smallest(S) == CHOOSE x \in S : \A y \in S : x <= y

IllegalInputs ==
    IF choose_trump_phase THEN {-1, NUM_SUITS}
    ELSE LET hand == hands[current_player]
             legal == Range(legal_actions(current_player))
             foreign == Cards \ hand
             offsuit == hand \ legal
         IN  (IF foreign = {} THEN {} ELSE {Smallest(foreign)})
             \cup (IF offsuit = {} THEN {} ELSE {Smallest(offsuit)})

StepIllegal ==
    /\ ~done
    /\ devs < MaxDevs
    /\ \E a \in IllegalInputs :
          /\ step(a)
          /\ last' = [op |-> "step", arg |-> a, legal |-> FALSE]
    /\ devs' = devs + 1
    /\ UNCHANGED resets
    /\ NoHeroCall

\* play by the rules
Next == Reset \/ ChooseTrump \/ PlayCard \/ StepAfterDone

Spec == Init /\ [][Next]_vars

\* any caller of step()
NextAny == Reset \/ ChooseTrump \/ PlayCard \/ StepAfterDone \/ StepIllegal

SpecAny == Init /\ [][NextAny]_vars

(***************************************************************************)
(* HeroAgent.play_card up to its first call of the determinizer: the hero, *)
(* asked for a card on the line of play that follows legal[0], decides to  *)
(* sample and builds a determinized env from its observation with the      *)
(* generator of line 489.                                                  *)
(***************************************************************************)
Determinize ==
    /\ resets > 0
    /\ ~done
    /\ ~choose_trump_phase
    /\ devs = 0
    /\ Samples(obs(current_player), legal_actions(current_player))
    /\ \E o \in {obs(current_player)} :
       \E rng \in {hero_rng(o)} :
          \E r \in {build_determinized_env_from_obs(o, rng)} :
             /\ det' = r.env
             /\ det_returned' = r.returned
    /\ UNCHANGED <<env, err, last, resets, devs, hero>>

\* match.py play_hand called once more on the same env, after a finished hand
Rematch ==
    /\ resets >= 1
    /\ resets < MaxResets + 1
    /\ done
    /\ \E seed \in Seeds :
          /\ reset(seed)
          /\ last' = [op |-> "reset", arg |-> seed, legal |-> TRUE]
    /\ resets' = resets + 1
    /\ devs' = 0
    /\ NoHeroCall

NextRematch == Reset \/ ChooseTrump \/ PlayCard \/ StepAfterDone \/ Rematch

SpecRematch == Init /\ [][NextRematch]_vars

NextHero == Reset \/ ChooseTrump \/ PlayCard \/ StepAfterDone \/ Determinize

SpecHero == Init /\ [][NextHero]_vars

(***************************************************************************)
(* match.py play_hand with a HeroAgent as agent_even (tune_hero.py: the    *)
(* hero plays seats 0 and 2) and any policy as agent_odd.  One pass of the *)
(* loop is one action: the policy of current_player is asked and its       *)
(* answer is stepped.  hero keeps the record of the hero's last play_card  *)
(* call: the configuration the agent was built with, the arguments obs and *)
(* legal, what the call did, and the card it returned and the pass         *)
(* stepped.  The odd seats answer as PolicyPositions allows; the lines     *)
(* are followed while no odd seat has left legal[0] (devs = 0), the hero   *)
(* is not asked after that.                                                *)
(***************************************************************************)
\* the seeds of the hands played
HandSeeds == Seeds \cup {1}

\* play_hand(env, agent_even, agent_odd, seed): env.reset(seed=seed)
PlayHand ==
    /\ resets < MaxResets
    /\ \E seed \in HandSeeds :
          /\ reset(seed)
          /\ last' = [op |-> "reset", arg |-> seed, legal |-> TRUE]
    /\ resets' = resets + 1
    /\ devs' = 0
    /\ NoHeroCall

\* the hero of one hand is one object: its configuration does not change
HeroConfigOf(h) == IF h = NoHero THEN HeroConfigs ELSE {h.cfg}

\* p is even: policy = agent_even, HeroAgent.choose_trump
HeroChooseTrump ==
    /\ resets > 0
    /\ ~done
    /\ choose_trump_phase
    /\ current_player % 2 = 0
    /\ \E act \in {hero_choose_trump(obs(current_player), legal_actions(current_player))} :
          /\ step(act)
          /\ last' = [op |-> "step", arg |-> act, legal |-> TRUE]
    /\ UNCHANGED <<resets, devs, det, det_returned, hero>>

\* p is even: policy = agent_even, HeroAgent.play_card
HeroPlayCard ==
    /\ resets > 0
    /\ ~done
    /\ ~choose_trump_phase
    /\ devs = 0
    /\ current_player % 2 = 0
    /\ \E cfg \in HeroConfigOf(hero) :
       \E o \in {obs(current_player)} :
       \E legal \in {legal_actions(current_player)} :
       \E h \in {hero_play_card(o, legal, cfg,
                                [c \in {"env", obs_history_cell, "sample"} |->
                                    IF c = "sample" THEN <<>> ELSE trick_history])} :
          /\ hero' = h @@ [obs |-> o, legal |-> legal]
          /\ step(h.card)
          /\ last' = [op |-> "step", arg |-> h.card, legal |-> TRUE]
    /\ UNCHANGED <<resets, devs, det, det_returned>>

\* p is odd: policy = agent_odd, choose_trump
OpponentChooseTrump ==
    /\ resets > 0
    /\ ~done
    /\ choose_trump_phase
    /\ current_player % 2 = 1
    /\ \E legal \in {legal_actions(current_player)} :
       \E i \in 1 .. Len(legal) :
          /\ step(legal[i])
          /\ last' = [op |-> "step", arg |-> legal[i], legal |-> TRUE]
    /\ UNCHANGED <<resets, devs, det, det_returned, hero>>

\* p is odd: policy = agent_odd, play_card
OpponentPlayCard ==
    /\ resets > 0
    /\ ~done
    /\ ~choose_trump_phase
    /\ current_player % 2 = 1
    /\ \E legal \in {legal_actions(current_player)} :
       \E i \in PolicyPositions(legal) :
          /\ step(legal[i])
          /\ last' = [op |-> "step", arg |-> legal[i], legal |-> TRUE]
          /\ devs' = IF i = 1 THEN devs ELSE devs + 1
    /\ UNCHANGED <<resets, det, det_returned, hero>>

NextMC ==
    PlayHand \/ HeroChooseTrump \/ HeroPlayCard \/ OpponentChooseTrump \/ OpponentPlayCard

SpecMC == Init /\ [][NextMC]_vars

(***************************************************************************)
(* Properties.  The rules of the game are restated here without the loops  *)
(* of the code: sets of positions and explicit sums.                       *)
(***************************************************************************)
Top3(s) == {c \in Cards : c \div 10 = s /\ c % 10 \in {0, 1, 2}}

ThirdsOfRank(r) == IF r = 2 THEN 3 ELSE IF r \in {0, 1, 3, 4, 5} THEN 1 ELSE 0

PointsOf(c) == ThirdsOfRank(c % 10)

\* 3 > 2 > A > K > N > J > 7 > 6 > 5 > 4, rank indices 0..9
Beats(c1, c2) == (c1 % 10) < (c2 % 10)

\* positions of a full trick whose card can win it
EligiblePos(cards, trump, lead) ==
    IF \E i \in 1 .. 4 : cards[i] \div 10 = trump
    THEN {i \in 1 .. 4 : cards[i] \div 10 = trump}
    ELSE {i \in 1 .. 4 : cards[i] \div 10 = lead}

\* eligible positions no other eligible position beats
TopPos(cards, trump, lead) ==
    {i \in EligiblePos(cards, trump, lead) :
        \A j \in EligiblePos(cards, trump, lead) : ~Beats(cards[j], cards[i])}

LastTrick == trick_history[Len(trick_history)]

\* the hands as dealt by the last reset
DealtHands == IF resets = 0 THEN [p \in Players |-> {}] ELSE Deal(deck)

\* the transition is a step() that played a card
CardPlayed == resets' = resets /\ played_mask' # played_mask

\* the transition is a step() that resolved a trick
TrickResolved == resets' = resets /\ trick_index' = trick_index + 1

\* the four cards of the trick a resolving step() completes
ResolvedCards == <<trick_cards[1], trick_cards[2], trick_cards[3], last'.arg>>

ResolvedPlayers == <<trick_players[1], trick_players[2], trick_players[3], current_player>>

ResolvedLead == ResolvedCards[1] \div 10

\* C1: once reset, in every state of legal play the four hands are pairwise
\* disjoint, each is disjoint from played_mask, and hands and played_mask
\* together are exactly the cards 0..39.
C1_HandsPartitionDeck ==
    resets > 0 =>
        /\ \A p, q \in Players : p # q => hands[p] \cap hands[q] = {}
        /\ \A p \in Players : hands[p] \cap played_mask = {}
        /\ (UNION {hands[p] : p \in Players}) \cup played_mask = 0 .. 39

C1_Witness ==
    /\ resets > 0
    /\ trick_index = 6
    /\ trick_len = 2
    /\ Cardinality(played_mask) = 26

\* C2 as claimed: a completed hand has scores_thirds[0] + scores_thirds[1] equal to 120
\* plus 9 if bonus_team is 0 or 1, plus 0 otherwise.
C2_PointConservation ==
    done =>
        scores_thirds[1] + scores_thirds[2]
            = 120 + (IF bonus_team \in {0, 1} THEN 9 ELSE 0)

\* C2 as the code has it: the card points of the deck are 4 * 8 = 32 thirds,
\* so a completed hand has scores_thirds[0] + scores_thirds[1] equal to 32
\* plus 9 if bonus_team is 0 or 1, plus 0 otherwise.
C2_PointConservation32 ==
    done =>
        scores_thirds[1] + scores_thirds[2]
            = 32 + (IF bonus_team \in {0, 1} THEN 9 ELSE 0)

C2_Witness == done /\ bonus_team = 1 /\ scores_thirds[1] > 0

\* C3: the winner of a resolved trick (who is current_player until the next
\* card) is the one player whose card is the strongest trump of the trick if
\* a trump was played, and else the strongest card of the lead suit; exactly
\* one position of the trick qualifies.
C3_TrickWinner ==
    (resets > 0 /\ trick_index > 0 /\ trick_len = 0) =>
        LET top == TopPos(LastTrick[3], trump_suit, LastTrick[1])
        IN  /\ Cardinality(top) = 1
            /\ \A i \in top : current_player = LastTrick[2][i]

\* a trick led in a plain suit, cut by a trump, with a stronger plain card in it
C3_Witness ==
    /\ trick_index > 0
    /\ trick_len = 0
    /\ LastTrick[1] # trump_suit
    /\ \E i, j \in 2 .. 4 :
          /\ LastTrick[3][i] \div 10 = trump_suit
          /\ LastTrick[3][j] \div 10 # trump_suit
          /\ Beats(LastTrick[3][j], LastTrick[3][i])
          /\ current_player = LastTrick[2][i]

\* C4: a step() whose action is not in legal_actions(current_player) raises
\* InvalidAction and leaves hands, played_mask, the trick, the scores and
\* current_player unchanged.
C4_IllegalStepRejected ==
    [][(last'.op = "step" /\ ~last'.legal) =>
          /\ err' = "InvalidAction"
          /\ UNCHANGED <<hands, played_mask, trick_cards, trick_players,
                         trick_len, lead_suit, scores_thirds, current_player>>]_vars

\* C5: in the Play phase legal_actions(p) lists, without repetition, the
\* whole hand of p when the trick is empty, the cards of the hand in the suit
\* of the trick's first card when the hand has such a card, and the whole
\* hand otherwise.
C5_LegalActions ==
    ~choose_trump_phase =>
        \A p \in Players :
            LET legal == legal_actions(p)
                follow == {c \in hands[p] : c \div 10 = trick_cards[1] \div 10}
            IN  /\ Cardinality(Range(legal)) = Len(legal)
                /\ Range(legal) =
                       IF trick_len = 0 THEN hands[p]
                       ELSE IF follow # {} THEN follow
                       ELSE hands[p]

\* one player must follow with part of the hand, another has no card of the
\* lead suit and may play anything
C5_Witness ==
    /\ ~choose_trump_phase
    /\ trick_len > 0
    /\ \E p, q \in Players :
          /\ Range(legal_actions(p)) # hands[p]
          /\ Range(legal_actions(p)) # {}
          /\ hands[q] # {}
          /\ \A c \in hands[q] : c \div 10 # lead_suit
          /\ Range(legal_actions(q)) = hands[q]

\* C6: a step that resolves a trick adds the thirds of the trick's four cards
\* to the score of the winner's team, and nothing to the other team's, apart
\* from the 9 thirds of the bonus team on the 10th trick.
C6_TrickPoints ==
    [][TrickResolved =>
          LET cards == ResolvedCards
              pts == PointsOf(cards[1]) + PointsOf(cards[2])
                     + PointsOf(cards[3]) + PointsOf(cards[4])
              bonus(t) == IF trick_index' = 10 /\ bonus_team = t THEN 9 ELSE 0
          IN  \A i \in TopPos(cards, trump_suit, ResolvedLead) :
                 LET wt == ResolvedPlayers[i] % 2
                 IN  /\ scores_thirds'[wt + 1]
                            = scores_thirds[wt + 1] + pts + bonus(wt)
                     /\ scores_thirds'[2 - wt]
                            = scores_thirds[2 - wt] + bonus(1 - wt)]_vars

C6_Witness ==
    /\ trick_index = 4
    /\ trick_len = 0
    /\ scores_thirds[1] > 0
    /\ scores_thirds[2] > 0

\* C7: after the declaration bonus_team is 0 if players 0 and 2 were dealt
\* the 3, 2 and A of the trump suit between them, 1 if players 1 and 3 were,
\* and -1 otherwise; it keeps its value for the rest of the hand.
C7_BonusTeam ==
    /\ [](~choose_trump_phase =>
            bonus_team =
                IF Top3(trump_suit) \subseteq DealtHands[0] \cup DealtHands[2] THEN 0
                ELSE IF Top3(trump_suit) \subseteq DealtHands[1] \cup DealtHands[3] THEN 1
                ELSE -1)
    /\ [][(~choose_trump_phase /\ resets' = resets) => bonus_team' = bonus_team]_vars

C7_Witness ==
    /\ resets > 0
    /\ bonus_team = 0
    /\ trick_index = 5
    /\ Top3(trump_suit) \cap played_mask # {}

\* C8: the 9 thirds of the bonus are added to the bonus team exactly at the
\* step that resolves the 10th trick and sets done, and only if bonus_team is
\* 0 or 1; every other step changes the total by the thirds of a resolved
\* trick only, and a step on a finished hand changes no score.
C8_BonusOnce ==
    [][resets' = resets =>
          LET cards == ResolvedCards
              pts == IF trick_index' = trick_index THEN 0
                     ELSE PointsOf(cards[1]) + PointsOf(cards[2])
                          + PointsOf(cards[3]) + PointsOf(cards[4])
              total == scores_thirds[1] + scores_thirds[2]
              total2 == scores_thirds'[1] + scores_thirds'[2]
              tenth == trick_index = 9 /\ trick_index' = 10
          IN  /\ tenth <=> (~done /\ done')
              /\ (tenth /\ bonus_team \in {0, 1}) =>
                    /\ total2 = total + pts + 9
                    /\ scores_thirds'[bonus_team + 1] >= scores_thirds[bonus_team + 1] + 9
              /\ ~(tenth /\ bonus_team \in {0, 1}) => total2 = total + pts
              /\ done => scores_thirds' = scores_thirds]_vars

\* a finished hand with a bonus, stepped again
C8_Witness ==
    /\ done
    /\ bonus_team = 0
    /\ last.op = "step"
    /\ ~last.legal

\* C9: a card that leaves the trick short of 4 cards passes the turn to
\* (actor + 1) mod 4; the card that fills the trick passes it to the winner
\* of the trick, who plays the first card of the next one; the declarer
\* plays the first card of the first trick.
C9_TurnOrder ==
    /\ [][CardPlayed =>
             /\ trick_len < 3 =>
                   /\ current_player' = (current_player + 1) % 4
                   /\ trick_players'[trick_len'] = current_player
             /\ trick_len = 3 =>
                   \A i \in TopPos(ResolvedCards, trump_suit, ResolvedLead) :
                      current_player' = ResolvedPlayers[i]]_vars
    /\ []((~choose_trump_phase /\ trick_index = 0 /\ trick_len = 0)
             => current_player = declarer)

\* the winner of the last trick, who did not lead it, has led the next one
C9_Witness ==
    /\ trick_index > 0
    /\ trick_len = 2
    /\ trick_players[1] # LastTrick[2][1]
    /\ \A i \in TopPos(LastTrick[3], trump_suit, LastTrick[1]) :
          trick_players[1] = LastTrick[2][i]
    /\ trick_players[2] = (trick_players[1] + 1) % 4

\* C10: within a hand the phases go TrumpSelection, Play, Terminal:
\* choose_trump_phase, once False, stays False; trump_suit is -1 exactly
\* while choose_trump_phase holds and keeps its value once declared; done,
\* once True, stays True and is only reached from the Play phase.
C10_PhaseOrder ==
    /\ [](choose_trump_phase <=> trump_suit = -1)
    /\ [](done => ~choose_trump_phase)
    /\ [][resets' = resets =>
             /\ ~choose_trump_phase =>
                   (~choose_trump_phase' /\ trump_suit' = trump_suit)
             /\ done => done']_vars

C10_Witness ==
    /\ done
    /\ trump_suit = 2
    /\ last.op = "step"
    /\ ~last.legal

\* the number of cards played so far in the hand
Plays == 4 * trick_index + trick_len

\* C11: a hand is 1 trump declaration and exactly 40 card plays: after
\* reset, done holds exactly when 40 cards have been played, and then
\* trick_index is 10, the trump is declared and the four hands are empty;
\* every card play adds one card, and until done the player to move has a
\* legal action, so the hand neither ends earlier nor goes on longer.
C11_FortyPlays ==
    /\ [](resets > 0 =>
            /\ Cardinality(played_mask) = Plays
            /\ done <=> Plays = 40
            /\ done =>
                  /\ trick_index = 10
                  /\ trick_len = 0
                  /\ ~choose_trump_phase
                  /\ \A p \in Players : hands[p] = {}
            /\ ~done => legal_actions(current_player) # <<>>
            /\ choose_trump_phase => Plays = 0)
    /\ [][CardPlayed =>
             /\ ~choose_trump_phase
             /\ Cardinality(played_mask') = Cardinality(played_mask) + 1]_vars

C11_Witness ==
    /\ resets > 0
    /\ done
    /\ Len(trick_history) = 10
    /\ last.legal

\* C12: once done, step(action) changes no field of the game state.
C12_TerminalFrozen ==
    [][(done /\ resets' = resets) =>
          UNCHANGED <<hands, played_mask, trick_cards, trick_players, trick_len,
                      lead_suit, trick_index, trick_history, scores_thirds,
                      bonus_team, current_player, done, trump_suit,
                      choose_trump_phase, declarer>>]_vars

C12_Witness ==
    /\ done
    /\ last.op = "step"
    /\ last.arg = 39
    /\ ~last.legal

\* C13: in TrumpSelection legal_actions(player) is [0, 1, 2, 3] for the
\* declarer and the empty list for the three other players.
C13_TrumpLegal ==
    choose_trump_phase =>
        \A p \in Players :
            legal_actions(p) = IF p = declarer THEN <<0, 1, 2, 3>> ELSE <<>>

C13_Witness ==
    /\ resets > 0
    /\ choose_trump_phase
    /\ declarer = 3
    /\ legal_actions(0) = <<>>

\* C14: between steps trick_len is in 0..3; the play of the 4th card leaves
\* the empty trick (cards and players -1, trick_len 0, lead_suit -1);
\* lead_suit is -1 exactly when trick_len is 0 and otherwise the suit of the
\* first card of the trick.
C14_TrickShape ==
    /\ [](/\ trick_len \in 0 .. 3
          /\ lead_suit = -1 <=> trick_len = 0
          /\ trick_len > 0 => lead_suit = trick_cards[1] \div 10
          /\ \A i \in 1 .. 4 :
                IF i <= trick_len
                THEN trick_cards[i] \in 0 .. 39 /\ trick_players[i] \in 0 .. 3
                ELSE trick_cards[i] = -1 /\ trick_players[i] = -1)
    /\ [][(CardPlayed /\ trick_len = 3) =>
             /\ trick_len' = 0
             /\ trick_cards' = <<-1, -1, -1, -1>>
             /\ trick_players' = <<-1, -1, -1, -1>>
             /\ lead_suit' = -1
             /\ trick_index' = trick_index + 1]_vars

C14_Witness ==
    /\ trick_index = 3
    /\ trick_len = 3
    /\ lead_suit = 2

\* the hands with those of two players other than p exchanged
SwapOthers(p) ==
    {[q \in Players |-> IF q = a THEN hands[b] ELSE IF q = b THEN hands[a] ELSE hands[q]] :
        a \in Players \ {p}, b \in Players \ {p}}

\* C15: obs(player=p) has no entry "hands", its hand_mask is hands[p], its
\* public entries are the fields of the state, and it is the same whatever
\* the other three players hold.
C15_ObsPrivate ==
    \A p \in Players :
        LET o == obs(p)
        IN  /\ "hands" \notin DOMAIN o
            /\ o.hand_mask = hands[p]
            /\ o.player = p
            /\ \A f \in DOMAIN PublicFields : o[f] = PublicFields[f]
            /\ o.trick_history = trick_history
            /\ o.played_mask = played_mask
            /\ o.trick_cards = trick_cards
            /\ o.scores_thirds = scores_thirds
            /\ \A hs \in SwapOthers(p) : ObsView(hs, p) = o
            /\ ObsView([q \in Players |-> IF q = p THEN hands[p] ELSE {}], p) = o

C15_Witness ==
    /\ ~choose_trump_phase
    /\ trick_len = 1
    /\ trick_index = 2
    /\ \E p \in Players : \E hs \in SwapOthers(p) : hs # hands

\* the public fields of an observation, which are all _public_void_suits reads
PublicObs == obs(current_player)

\* C16: a player marked void in a suit by _public_void_suits holds no card
\* of that suit, and no card a player plays is of a suit the player was
\* marked void in.
C16_VoidSound ==
    /\ [](\A p \in Players : \A s \in Suits :
             VoidMark(PublicObs, p, s) =>
                 hands[p] \cap {c \in Cards : c \div 10 = s} = {})
    /\ [][CardPlayed =>
             ~VoidMark(PublicObs, current_player, last'.arg \div 10)]_vars

\* two players are marked void, one of them in two suits, and still hold cards
C16_Witness ==
    /\ ~done
    /\ \E p, q \in Players : \E s, t, u \in Suits :
          /\ p # q
          /\ s # t
          /\ public_void_suits(PublicObs)[<<p, s>>]
          /\ public_void_suits(PublicObs)[<<p, t>>]
          /\ public_void_suits(PublicObs)[<<q, u>>]
          /\ hands[p] # {}
          /\ hands[q] # {}

\* C17: within a hand, what _public_void_suits marks void stays marked in
\* every later state, also across the step that resolves the trick in
\* progress and moves it to trick_history.
C17_VoidMonotonic ==
    [][resets' = resets =>
          \A p \in Players : \A s \in Suits :
              VoidMark(PublicObs, p, s) => VoidMark(PublicObs, p, s)']_vars

\* a mark made on the trick in progress, now carried by trick_history only
C17_Witness ==
    /\ trick_len = 0
    /\ trick_index > 0
    /\ ~done
    /\ \E i \in 1 .. 4 :
          /\ LastTrick[3][i] \div 10 # LastTrick[1]
          /\ public_void_suits(PublicObs)[<<LastTrick[2][i], LastTrick[1]>>]


(***************************************************************************)
(* The determinizer, under SpecHero.                                       *)
(***************************************************************************)
\* cards player p has put on the table: completed tricks and the trick in
\* progress, counted from the record of play
CardsPlayedBy(p) ==
    Cardinality({k \in 1 .. Len(trick_history) :
                    \E i \in 1 .. 4 : trick_history[k][2][i] = p})
        + Cardinality({i \in 1 .. trick_len : trick_players[i] = p})

\* C18: when the determinizer returns from its constrained loop, the
\* observer's hand in the hypothesized state is obs["hand_mask"], every other
\* player holds exactly 10 minus the cards that player has already played,
\* and no player holds a card of a suit _public_void_suits marks them void in.
C18_ConstrainedDeal ==
    det_returned = "constrained" =>
        /\ det.hands[current_player] = PublicObs.hand_mask
        /\ \A p \in Players \ {current_player} :
              Cardinality(det.hands[p]) = 10 - CardsPlayedBy(p)
        /\ \A p \in Players : \A s \in Suits :
              VoidMark(PublicObs, p, s) => det.hands[p] \cap SUIT_MASKS(s) = {}

\* a constrained deal with a void mark on another player, in a trick where
\* the players' remaining sizes differ
C18_Witness ==
    /\ det_returned = "constrained"
    /\ trick_index > 0
    /\ trick_len \in 1 .. 3
    /\ \E p \in Players \ {current_player} : \E s \in Suits :
          VoidMark(PublicObs, p, s)

\* the attributes of a MaraffaEnv
EnvFields ==
    {"deck", "hands", "current_player", "declarer", "choose_trump_phase",
     "trump_suit", "trick_cards", "trick_players", "trick_len", "lead_suit",
     "trick_index", "scores_thirds", "bonus_team", "played_mask",
     "trick_history", "done"}

\* C19: a result of the fallback deal is surfaced to the caller: the value
\* returned carries a flag or tag beyond the state of a plain env, which a
\* result of the constrained loop does not carry.
C19_FallbackSurfaced ==
    det_returned = "fallback" => DOMAIN det \ EnvFields # {}


(***************************************************************************)
(* The record of play, and the deal.                                       *)
(***************************************************************************)
\* the player who took trick k of the history, by the rule of the game
TakerOf(k) ==
    LET e == trick_history[k]
    IN  e[2][CHOOSE i \in TopPos(e[3], trump_suit, e[1]) : TRUE]

\* C28: trick_history has one entry per completed trick: the lead suit (the
\* suit of the first card), the four players in seat order from the trick's
\* leader (the declarer, then the taker of the trick before), and their four
\* cards; a step leaves the existing entries as they are and adds at most one.
C28_HistoryAppendOnly ==
    /\ [](/\ Len(trick_history) = trick_index
          /\ \A k \in 1 .. Len(trick_history) :
                LET e == trick_history[k]
                IN  /\ e[1] = e[3][1] \div 10
                    /\ e[2][1] = IF k = 1 THEN declarer ELSE TakerOf(k - 1)
                    /\ \A i \in 1 .. 4 :
                          /\ e[2][i] = (e[2][1] + i - 1) % 4
                          /\ e[3][i] \in Cards
                    /\ Cardinality({e[3][i] : i \in 1 .. 4}) = 4)
    /\ [][resets' = resets =>
             /\ Len(trick_history') \in {Len(trick_history), Len(trick_history) + 1}
             /\ SubSeq(trick_history', 1, Len(trick_history)) = trick_history]_vars

\* a history of several tricks, one of them led by a player other than the
\* declarer
C28_Witness ==
    /\ Len(trick_history) >= 3
    /\ \E k \in 1 .. Len(trick_history) : trick_history[k][2][1] # declarer

\* C29: reset(seed) deals by the seed alone: after any reset the hands are
\* the deal of a fresh deck shuffled with that seed, and the declarer is the
\* seed's, however many resets the env has seen.
C29_DealBySeedOnly ==
    last.op = "reset" =>
        /\ hands = Deal(Shuffle([i \in 1 .. NUM_CARDS |-> i - 1], last.arg))
        /\ declarer = SeedDeclarer(last.arg)

\* C30: on an observation reached by legal play the constrained loop of the
\* determinizer returns within max_tries; the fallback deal is never returned.
C30_NoFallback ==
    det_returned # "none" => det_returned = "constrained"

\* the seat that holds the trick under _resolve_trick's rule applied to the
\* first n cards on the table
TableLeader(n) ==
    resolve_trick(SubSeq(trick_cards, 1, n), SubSeq(trick_players, 1, n),
                  trump_suit, lead_suit)[1]

\* the winner _resolve_trick names once the actor adds card c as fourth card
WinnerWith(c) ==
    resolve_trick(Append(SubSeq(trick_cards, 1, 3), c),
                  Append(SubSeq(trick_players, 1, 3), current_player),
                  trump_suit, lead_suit)[1]

\* C26: on a partial trick the policies' _current_winning_team is the team of
\* the seat the engine's rule names on the cards played so far, and with three
\* cards on the table _wins_if_played(obs, player, c) is true of a legal card
\* c exactly when _resolve_trick names the player the winner after c
C26_WinnerAgrees ==
    (resets > 0 /\ ~done /\ ~choose_trump_phase /\ trick_len > 0) =>
        LET p == current_player
            o == obs(p)
            legal == legal_actions(p)
        IN  /\ agent_current_winning_team(o) = team_of(TableLeader(trick_len))
            /\ hero_current_winner_team(o) = team_of(TableLeader(trick_len))
            /\ trick_len = 3 =>
                  \A i \in 1 .. Len(legal) :
                     /\ agent_wins_if_played(o, p, legal[i]) <=> (WinnerWith(legal[i]) = p)
                     /\ hero_wins_if_played(o, p, legal[i]) <=> (WinnerWith(legal[i]) = p)

\* three cards on the table, the fourth seat holds a card that takes the trick
\* by trumping and one that does not take it
C26_Witness ==
    /\ resets > 0 /\ ~done /\ ~choose_trump_phase /\ trick_len = 3
    /\ ~HasTrump(SubSeq(trick_cards, 1, 3), trump_suit)
    /\ \E c, d \in Range(legal_actions(current_player)) :
          /\ CARD_SUIT(c) = trump_suit
          /\ WinnerWith(c) = current_player
          /\ WinnerWith(d) # current_player

\* thirds of a point carried by the cards on the table
TableThirds == LET on == {i \in 1 .. 4 : trick_cards[i] >= 0}
                   f[S \in SUBSET on] ==
                       IF S = {} THEN 0
                       ELSE LET i == CHOOSE i \in S : TRUE
                            IN  PointsOf(trick_cards[i]) + f[S \ {i}]
               IN  f[on]

\* a play_card decision is pending
Deciding == resets > 0 /\ ~done /\ ~choose_trump_phase

\* C27 as stated: the hero returns without sampling only on a single legal
\* action, or with no points on the table and fewer than 3 legal choices
C27_GateAsStated ==
    Deciding =>
        LET legal == legal_actions(current_player)
        IN  HeroBranch(obs(current_player), legal) # "mc" =>
               \/ Len(legal) = 1
               \/ TableThirds = 0 /\ Len(legal) < 3

\* C27: with mc_enabled the hero returns without sampling exactly when there
\* is a single legal action, or it leads the trick, or less than one whole
\* point lies on the table and there are fewer than 3 legal choices
C27_Gate ==
    Deciding =>
        LET legal == legal_actions(current_player)
        IN  HeroBranch(obs(current_player), legal) # "mc" <=>
               \/ Len(legal) = 1
               \/ trick_len = 0
               \/ TableThirds < 3 /\ Len(legal) < 3

\* the hero follows with two legal cards and a fraction of a point on the
\* table, and skips the sampling
C27_Witness ==
    /\ Deciding
    /\ trick_len > 0
    /\ TableThirds \in {1, 2}
    /\ Len(legal_actions(current_player)) = 2
    /\ HeroBranch(obs(current_player), legal_actions(current_player)) = "heuristic"

\* the legal list of the seat to move
Legal == legal_actions(current_player)

\* C21: on every observation reached by legal play, Agent.play_card and
\* HeroAgent.play_card (heuristic and Monte-Carlo branches alike) return a
\* card of the legal list, and the two choose_trump return a legal suit
C21_PolicyLegal ==
    /\ (resets > 0 /\ ~done /\ choose_trump_phase) =>
          \A o \in {obs(current_player)} :
          \A a \in {agent_choose_trump(o, Legal)} :
             /\ a # {}
             /\ a \subseteq Range(Legal)
             /\ hero_choose_trump(o, Legal) \in Range(Legal)
    /\ Deciding =>
          \A o \in {obs(current_player)} :
          \A legal \in {Legal} :
             /\ agent_play_card(o, legal) \in Range(legal)
             /\ hero_heuristic_play_card(o, legal) \in Range(legal)
    /\ hero # NoHero =>
          hero.card \in Range(hero.legal)

\* the hero sampled while following with lead-suit cards and others in hand,
\* and the sampling prefers a card other than the first legal one
C21_Witness ==
    /\ hero # NoHero
    /\ hero.branch = "mc"
    /\ Range(hero.legal) # hero.obs.hand_mask
    /\ hero.card # hero.legal[1]

\* match.py 14, 74: RandomAgent(seed) with the default seed and the seed + 1
\* of main
AgentSeeds == {0, 1}

\* the words a RandomAgent may have drawn before the call
AgentWords == 0 .. MaxAgentWords

\* the generator of a RandomAgent when play_card is called
AgentRngs ==
    {[mt |-> r.mt, mti |-> n] : r \in {Ready(Random(<<0, seed>>)) : seed \in AgentSeeds},
                               n \in AgentWords}

\* C22: with exactly one legal card every policy returns it, and the hero does
\* so without building a determinized state or stepping a rollout
C22_SingleLegal ==
    /\ Deciding =>
          \A legal \in {Legal} :
             Len(legal) = 1 =>
                /\ agent_play_card(obs(current_player), legal) = legal[1]
                /\ \A rng \in AgentRngs : random_play_card(rng, legal) = legal[1]
    /\ (hero # NoHero /\ Len(hero.legal) = 1) =>
          /\ hero.branch = "single"
          /\ hero.card = hero.legal[1]
          /\ hero.starts = {}
          /\ hero.steps = {}

\* the hero was asked with one legal card while a whole point lay on the
\* table, where the gate alone would have sampled
C22_Witness ==
    /\ hero # NoHero
    /\ Len(hero.legal) = 1
    /\ hero.obs.trick_len > 0
    /\ points_on_table(hero.obs, hero.obs.trick_len) >= 3

\* the cards a rollout of k tricks has to play after the candidate on the
\* observation o: the rest of the trick in progress, then k - 1 further
\* tricks while the hand lasts
HorizonCards(o, k) ==
    (3 - o.trick_len) + 4 * Min(k - 1, NUM_TRICKS - 1 - o.trick_index)

\* C23: after the candidate action every sample's rollout plays the cards that
\* finish the trick in progress and, with mc_rollout_tricks = 2, exactly one
\* further trick, whatever the seat of the hero in the trick
C23_RolloutHorizon ==
    (hero # NoHero /\ hero.branch = "mc") =>
        hero.steps = {HorizonCards(hero.obs, hero.cfg.mc_rollout_tricks)}

\* what the rollouts do play: the horizon is counted from the trick index
\* after the candidate action
HorizonFromCandidate ==
    (hero # NoHero /\ hero.branch = "mc") =>
        hero.steps = {IF hero.obs.trick_len = 3
                      THEN 4 * Min(hero.cfg.mc_rollout_tricks,
                                   NUM_TRICKS - 1 - hero.obs.trick_index)
                      ELSE HorizonCards(hero.obs, hero.cfg.mc_rollout_tricks)}

\* no rollout of a sample meets an actor without a legal action: the branch
\* "if not legal2" of the rollout loop is not taken
NeverForced == hero # NoHero => ~hero.forced

\* C25: the steps of the samples of one decision leave the observation passed
\* in (its trick_history) and the game as they were, so that the pass of the
\* loop steps the game from the state the call was made in, and every sample
\* starts from the observation as it was passed in.  hero' # hero: this step
\* is a pass of the hero
C25_SamplesIndependent ==
    [][(hero' # hero /\ hero'.branch = "mc") =>
          /\ hero'.heap["env"] = trick_history
          /\ hero'.heap[obs_history_cell] = trick_history
          /\ hero'.obs = obs(current_player)
          /\ hero'.starts = {obs(current_player)}
          /\ step(hero'.card)]_vars

\* a sampled decision whose last rollout resolved a trick: the sample's own
\* trick_history grew
C25_Witness ==
    /\ hero # NoHero
    /\ hero.branch = "mc"
    /\ Len(hero.heap["sample"]) > Len(hero.obs.trick_history)

\* the seat that led the trick in progress (or leads it, while it is empty)
TrickLeader == IF trick_index = 0 THEN declarer ELSE TakerOf(trick_index)

\* whether p has a card in the trick in progress
InTrick(p) == \E i \in 1 .. trick_len : trick_players[i] = p

\* C31: in the Play phase player p holds 10 - trick_index cards, one less if
\* p has played in the trick in progress (the count the determinizer takes
\* from an observation); no player is twice in the trick in progress, whose
\* players are the trick_len seats in turn order from the trick's leader
C31_HandSizes ==
    (resets > 0 /\ ~choose_trump_phase) =>
        /\ \A p \in Players :
              Cardinality(hands[p])
                  = NUM_TRICKS - trick_index - (IF InTrick(p) THEN 1 ELSE 0)
        /\ \A me \in Players : \A o \in {obs(me)} : \A p \in Players \ {me} :
              need(o)[p] = Cardinality(hands[p])
        /\ \A i, j \in 1 .. trick_len :
              trick_players[i] = trick_players[j] => i = j
        /\ Len(trick_history) = trick_index
        /\ \A i \in 1 .. trick_len :
              trick_players[i] = (TrickLeader + i - 1) % NUM_PLAYERS
        /\ ~done => current_player = (TrickLeader + trick_len) % NUM_PLAYERS

\* in the fifth trick, led by seat 2 who took the fourth, seats 2, 3 and 0
\* have played and hold 5 cards; seat 1, to move, holds 6
C31_Witness ==
    /\ resets > 0
    /\ ~choose_trump_phase
    /\ trick_index = 4
    /\ trick_len = 3
    /\ trick_players[1] = 2
    /\ declarer # 2
    /\ Cardinality(hands[0]) = 5
    /\ Cardinality(hands[current_player]) = 6

\* C32: after reset, while the hand is not done, the player to move has a
\* legal action, and each action offered is one step() accepts (a suit in
\* TrumpSelection, a card of the own hand in Play), so the match loop can
\* take its step
C32_NoDeadlock ==
    (resets > 0 /\ ~done) =>
        /\ Legal # <<>>
        /\ IF choose_trump_phase
           THEN Range(Legal) \subseteq Suits
           ELSE Range(Legal) \subseteq hands[current_player]

\* the player to move closes a trick without a card of the suit led, and is
\* offered the whole hand
C32_Witness ==
    /\ resets > 0
    /\ ~done
    /\ trick_len = 3
    /\ hands[current_player] \cap SUIT_MASKS(lead_suit) = {}
    /\ Len(Legal) = Cardinality(hands[current_player])
    /\ Len(Legal) > 1

====
